---- MODULE Spec2Model ----
(***************************************************************************)
(* Model of the deployment version routes and of the Vyin intent router of *)
(* apps/sim.                                                               *)
(*                                                                         *)
(* Part 1: the deployment HTTP surface                                     *)
(*   POST  /workflows/{id}/deployments/{version}/activate                  *)
(*   PATCH /workflows/{id}/deployments/{version}                           *)
(*   GET   /workflows/{id}/deployments[/{version}]                         *)
(* over one workflow W.  The database is PostgreSQL (docs/gim-deployment-  *)
(* guideline.md) and db.transaction is called without an isolation level,  *)
(* so a transaction runs READ COMMITTED: every statement reads the rows    *)
(* committed when it starts, an UPDATE waits for a row another open        *)
(* transaction has written and then re-evaluates its WHERE clause on the   *)
(* committed row, and nothing a transaction writes is visible to the       *)
(* others before its commit.  Every await of the handler is a point where  *)
(* the other requests may run.                                             *)
(*                                                                         *)
(* Part 2: VyinIntentRouterBlockHandler.execute over one execution         *)
(* context: the candidate list of getTargetBlocks, the call of the tool    *)
(* gateway (executeTool) and the decision taken on its answer.             *)
(*                                                                         *)
(* Part 3: the three Vyin handlers (intent router, bot assistant, chat     *)
(* response) as the executor dispatches one block to them: canHandle, the  *)
(* checks of execute, the message history request of the bot assistant,    *)
(* the call of the tool gateway and what is made of its answer.            *)
(***************************************************************************)
EXTENDS Integers, Sequences, FiniteSets, TLC

VARIABLES
    rows,      \* workflow_deployment_version rows of W: version -> [isActive, name, state]
    wf,        \* the workflow row of W: [isDeployed, deployedAt]
    clock,     \* the wall clock read by new Date()
    pc,        \* request -> position of its handler
    req,       \* request -> what was asked: [op, caller, version, name, now]
    snap,      \* request -> rows its open UPDATE statement selected
    txw,       \* request -> uncommitted isActive writes of its transaction
    txwf,      \* request -> TRUE when its transaction has written the workflow row
    resp,      \* request -> the HTTP response
    connections,   \* context.workflow.connections: sequence of [source, target]
    hasTrigger,    \* TRUE when context.workflow.blocks holds a vyin_chatbot block
    blockStates,   \* context.blockStates: block id -> [output]
    toolId,        \* block.config.tool of the executed block ("" when unset)
    inputs,        \* the resolved inputs of the executed block
    rpc,           \* position of the handler's execute
    targetBlocks,  \* the candidate list built by getTargetBlocks
    gatewayCalls,  \* the params of every executeTool call made so far
    gatewayResult, \* what executeTool answered
    output,        \* the BlockOutput returned by execute
    thrown,        \* the error execute threw
    block,         \* the block handed to the handlers: [id, type, name]
    gimBaseUrl,    \* env.GIM_BASE_URL (<<>> when unset)
    fetches,       \* the urls requested by fetch, outside the tool gateway
    history,       \* the message history the bot assistant obtained
    mwRequest,     \* the request handed to middleware() and the environment flag
    mwResponse,    \* what middleware() returned
    dateNow,       \* Date.now() of the internal auth routes, in milliseconds
    redis,         \* TRUE when getRedisClient() answers a client
    redisCodes,    \* the embed-code keys of the Redis server: code -> [value, expiry]
    inMemoryCodes, \* the Map of embed-session.ts: code -> [value, expiry]
    processed,     \* the nonce keys marked by markMessageAsProcessed
    issue,         \* init POST request -> its position, headers, body and answer
    consume,       \* consume GET request -> its position, code, value read and answer
    environment,   \* the variables of the user's environment row (NoRow when none)
    envReq,        \* environment request -> its position, body, rows read and answer
    workspaceRows, \* workspace table: id -> [name, ownerId]
    permissionRows,\* permissions table: set of [entityId, userId, permissionType]
    workflowRows,  \* workflow table: id -> [workspaceId]
    blockRows,     \* workflow_blocks table: id -> [workflowId, parentId]
    edgeRows,      \* workflow_edges table: id -> [workflowId, sourceBlockId, targetBlockId]
    subflowRows,   \* workflow_subflows table: id -> [workflowId, nodes]
    uuid,          \* duplicate request -> how many ids crypto.randomUUID() handed it
    dup            \* duplicate request -> its position, transaction and answer

deployVars == <<rows, wf, clock, pc, req, snap, txw, txwf, resp>>

routerVars ==
    <<connections, hasTrigger, blockStates, toolId, inputs, rpc, targetBlocks,
      gatewayCalls, gatewayResult, output, thrown, block, gimBaseUrl, fetches,
      history>>

mwVars == <<mwRequest, mwResponse>>

embedVars == <<dateNow, redis, redisCodes, inMemoryCodes, processed, issue, consume>>

envVars == <<environment, envReq>>

dupVars ==
    <<workspaceRows, permissionRows, workflowRows, blockRows, edgeRows,
      subflowRows, uuid, dup>>

serviceVars == <<mwVars, embedVars, envVars, dupVars>>

vars == <<deployVars, routerVars, serviceVars>>

----------------------------------------------------------------------------
(* Bounds *)

MaxVersion == 3
NumReqs == 2

Versions == 1..MaxVersion
Reqs == 1..NumReqs

\* A version path parameter for which Number(version) is not finite.
NotANumber == -1
\* version path parameters: the existing rows, one missing row, one non-number
VersionParams == (1..(MaxVersion + 1)) \cup {NotANumber}

----------------------------------------------------------------------------
(* Strings: sequences of one-character strings *)

WhiteSpace == {" ", "\n", "\t"}

RECURSIVE TrimStart(_)
TrimStart(s) ==
    IF s # <<>> /\ Head(s) \in WhiteSpace THEN TrimStart(Tail(s)) ELSE s

RECURSIVE TrimEnd(_)
TrimEnd(s) ==
    IF s # <<>> /\ s[Len(s)] \in WhiteSpace
    THEN TrimEnd(SubSeq(s, 1, Len(s) - 1))
    ELSE s

\* String.prototype.trim
Trim(s) == TrimEnd(TrimStart(s))

NameMaxLen == 100

\* typeof name !== 'string'
NotAString == <<"<number>">>

\* request bodies of PATCH
NameInputs ==
    { <<>>, <<" ", "\t">>, <<" ", "q", "a", "\n">>, NotAString }

\* 'c'.repeat(n)
Rep(c, n) == [i \in 1..n |-> c]

\* names at the length limit: 100 characters, 100 characters inside white
\* space, 101 characters
LongNames ==
    { Rep("x", NameMaxLen),
      <<" ">> \o Rep("x", NameMaxLen) \o <<"\n">>,
      Rep("x", NameMaxLen + 1) }

----------------------------------------------------------------------------
(* Callers: what authenticateApiKeyFromHeader and getWorkflowAccessContext *)
(* answer for them                                                         *)

Callers == {"anonymous", "owner", "admin", "writer", "reader", "stranger"}

Authenticated(c) == c # "anonymous"
IsOwner(c) == c = "owner"
WorkspacePermission(c) ==
    CASE c = "admin" -> "admin"
      [] c = "writer" -> "write"
      [] c = "reader" -> "read"
      [] OTHER -> "null"

\* accessContext.isOwner || !!accessContext.workspacePermission
HasAccess(c) == IsOwner(c) \/ WorkspacePermission(c) # "null"

\* accessContext.isOwner || workspacePermission === 'admin' || === 'write'
CanWrite(c) ==
    IsOwner(c) \/ WorkspacePermission(c) = "admin" \/ WorkspacePermission(c) = "write"

----------------------------------------------------------------------------
(* Responses *)

NoTime == -1

Response(status, error) ==
    [status |-> status, error |-> error, deployedAt |-> NoTime,
     name |-> <<>>, versions |-> <<>>, deployedState |-> 0]

NoResponse == Response(0, "")

NoRequest ==
    [op |-> "none", caller |-> "anonymous", version |-> NotANumber,
     name |-> <<>>, now |-> NoTime]

Request(op, c, v, n) ==
    [op |-> op, caller |-> c, version |-> v, name |-> n, now |-> NoTime]

----------------------------------------------------------------------------
(* Row locks of READ COMMITTED *)

\* the rows request r has written and not yet committed
Written(r) == DOMAIN txw[r]

LockedByOther(r, v) == \E o \in Reqs \ {r} : v \in Written(o)

WorkflowLockedByOther(r) == \E o \in Reqs \ {r} : txwf[o]

ActiveRows == {v \in Versions : rows[v].isActive}

NoWrites == [v \in {} |-> FALSE]

\* a table, map or request list that holds nothing
NoEntries == [k \in {} |-> <<>>]

\* the other services at rest: no request made, nothing stored
MiddlewareOff == mwRequest = NoEntries /\ mwResponse = NoEntries

EmbedOff ==
    /\ dateNow = 0
    /\ redis = FALSE
    /\ redisCodes = NoEntries
    /\ inMemoryCodes = NoEntries
    /\ processed = {}
    /\ issue = NoEntries
    /\ consume = NoEntries

EnvOff == environment = NoEntries /\ envReq = NoEntries

DupOff ==
    /\ workspaceRows = NoEntries
    /\ permissionRows = {}
    /\ workflowRows = NoEntries
    /\ blockRows = NoEntries
    /\ edgeRows = NoEntries
    /\ subflowRows = NoEntries
    /\ uuid = NoEntries
    /\ dup = NoEntries

----------------------------------------------------------------------------
(* Initial state: versions 1..MaxVersion were deployed, the last one is    *)
(* live                                                                    *)


DeployInit ==
    /\ rows = [v \in Versions |->
                  [isActive |-> (v = MaxVersion), name |-> <<>>, state |-> v]]
    /\ wf = [isDeployed |-> TRUE, deployedAt |-> 0]
    /\ clock = 0
    /\ pc = [r \in Reqs |-> "idle"]
    /\ req = [r \in Reqs |-> NoRequest]
    /\ snap = [r \in Reqs |-> {}]
    /\ txw = [r \in Reqs |-> NoWrites]
    /\ txwf = [r \in Reqs |-> FALSE]
    /\ resp = [r \in Reqs |-> NoResponse]

Finish(r, response) ==
    /\ pc' = [pc EXCEPT ![r] = "done"]
    /\ resp' = [resp EXCEPT ![r] = response]

----------------------------------------------------------------------------
(* POST activate *)

\* lines 19-40: authentication, Number(version), new Date(), BEGIN
ActivateBegin(r, c, v) ==
    /\ pc[r] = "idle"
    /\ IF ~Authenticated(c)
       THEN /\ Finish(r, Response(401, "Unauthorized"))
            /\ req' = [req EXCEPT ![r] = Request("activate", c, v, <<>>)]
            /\ UNCHANGED clock
       ELSE IF v = NotANumber
       THEN /\ Finish(r, Response(400, "Invalid version"))
            /\ req' = [req EXCEPT ![r] = Request("activate", c, v, <<>>)]
            /\ UNCHANGED clock
       ELSE /\ clock' = clock + 1
            /\ req' = [req EXCEPT ![r] =
                          [Request("activate", c, v, <<>>) EXCEPT !.now = clock + 1]]
            /\ pc' = [pc EXCEPT ![r] = "deactivate"]
            /\ UNCHANGED resp
    /\ UNCHANGED <<routerVars, serviceVars, rows, wf, snap, txw, txwf>>

\* lines 41-49, statement start: UPDATE ... SET isActive = false
\* WHERE workflowId = id AND isActive = true selects the rows that are
\* committed active now
DeactivateSelect(r) ==
    /\ pc[r] = "deactivate"
    /\ snap' = [snap EXCEPT ![r] = ActiveRows]
    /\ pc' = [pc EXCEPT ![r] = "deactivate_rows"]
    /\ UNCHANGED <<routerVars, serviceVars, rows, wf, clock, req, txw, txwf, resp>>

\* lines 41-49, the row updates: wait for the writers of the selected rows,
\* re-evaluate isActive = true on the committed rows, write the ones that
\* still match
DeactivateRows(r) ==
    /\ pc[r] = "deactivate_rows"
    /\ \A v \in snap[r] : ~LockedByOther(r, v)
    /\ txw' = [txw EXCEPT ![r] = [v \in (snap[r] \cap ActiveRows) |-> FALSE]]
    /\ snap' = [snap EXCEPT ![r] = {}]
    /\ pc' = [pc EXCEPT ![r] = "activate"]
    /\ UNCHANGED <<routerVars, serviceVars, rows, wf, clock, req, txwf, resp>>

\* the activation lost on a row the transaction has just cleared
SetActiveUnlessCleared(writes, v) ==
    [x \in (DOMAIN writes) \cup {v} |->
        IF x = v /\ x \notin DOMAIN writes THEN TRUE ELSE writes[x]]

\* the transaction's writes with version v set active
SetActive(writes, v) ==
    [x \in (DOMAIN writes) \cup {v} |-> IF x = v THEN TRUE ELSE writes[x]]

\* lines 51-60: UPDATE ... SET isActive = true WHERE workflowId = id AND
\* version = versionNum, on an existing row
ActivateRow(r) ==
    /\ pc[r] = "activate"
    /\ req[r].version \in Versions
    /\ ~LockedByOther(r, req[r].version)
    /\ txw' = [txw EXCEPT ![r] = SetActive(txw[r], req[r].version)]
    /\ pc' = [pc EXCEPT ![r] = "mark_deployed"]
    /\ UNCHANGED <<routerVars, serviceVars, rows, wf, clock, req, snap, txwf, resp>>

\* a commit that applies only the activation, leaving the cleared rows active
CommittedKeepsActive(committed, writes) ==
    [v \in Versions |->
        IF v \in DOMAIN writes /\ writes[v]
        THEN [committed[v] EXCEPT !.isActive = TRUE]
        ELSE committed[v]]

\* the committed rows after a transaction with these writes commits
Committed(committed, writes) ==
    [v \in Versions |->
        IF v \in DOMAIN writes
        THEN [committed[v] EXCEPT !.isActive = writes[v]]
        ELSE committed[v]]

\* the statements run outside a transaction: the writes made before the
\* throw stay
RolledBackKeepsWrites(committed, writes) == Committed(committed, writes)

\* what a rolled back transaction leaves of the committed rows
RolledBack(committed, writes) == committed

\* the answer of the catch block, lines 73-76
ActivateFailure(message) == Response(500, message)

\* lines 51-64 and 73-76: no row matched, the callback throws, the
\* transaction rolls back and the catch block answers
ActivateMissing(r) ==
    /\ pc[r] = "activate"
    /\ req[r].version \notin Versions
    /\ rows' = RolledBack(rows, txw[r])
    /\ txw' = [txw EXCEPT ![r] = NoWrites]
    /\ Finish(r, ActivateFailure("Deployment version not found"))
    /\ UNCHANGED <<routerVars, serviceVars, wf, clock, req, snap, txwf>>

\* lines 66-69: UPDATE workflow SET isDeployed = true, deployedAt = now
MarkDeployed(r) ==
    /\ pc[r] = "mark_deployed"
    /\ ~WorkflowLockedByOther(r)
    /\ txwf' = [txwf EXCEPT ![r] = TRUE]
    /\ pc' = [pc EXCEPT ![r] = "commit"]
    /\ UNCHANGED <<routerVars, serviceVars, rows, wf, clock, req, snap, txw, resp>>

\* the workflow row written by lines 66-69
DeployedWorkflow(now) == [isDeployed |-> TRUE, deployedAt |-> now]

\* lines 70-72: COMMIT and the success response
ActivateCommit(r) ==
    /\ pc[r] = "commit"
    /\ rows' = Committed(rows, txw[r])
    /\ wf' = DeployedWorkflow(req[r].now)
    /\ txw' = [txw EXCEPT ![r] = NoWrites]
    /\ txwf' = [txwf EXCEPT ![r] = FALSE]
    /\ Finish(r, [Response(200, "") EXCEPT !.deployedAt = req[r].now])
    /\ UNCHANGED <<routerVars, serviceVars, clock, req, snap>>

----------------------------------------------------------------------------
(* PATCH rename *)

\* the checks with the length limit one character short
PatchChecksBelowLimit(c, v, n) ==
    IF ~Authenticated(c) THEN Response(401, "Unauthorized")
    ELSE IF ~CanWrite(c) THEN Response(403, "Access denied")
    ELSE IF v = NotANumber THEN Response(400, "Invalid version")
    ELSE IF n = NotAString THEN Response(400, "Name must be a string")
    ELSE IF Len(Trim(n)) = 0 THEN Response(400, "Name cannot be empty")
    ELSE IF Len(Trim(n)) >= NameMaxLen
    THEN Response(400, "Name must be 100 characters or less")
    ELSE NoResponse

\* lines 81-121: the checks made before the UPDATE; status 0 when all pass
PatchChecks(c, v, n) ==
    IF ~Authenticated(c) THEN Response(401, "Unauthorized")
    ELSE IF ~CanWrite(c) THEN Response(403, "Access denied")
    ELSE IF v = NotANumber THEN Response(400, "Invalid version")
    ELSE IF n = NotAString THEN Response(400, "Name must be a string")
    ELSE IF Len(Trim(n)) = 0 THEN Response(400, "Name cannot be empty")
    ELSE IF Len(Trim(n)) > NameMaxLen
    THEN Response(400, "Name must be 100 characters or less")
    ELSE NoResponse

\* lines 74-121
PatchBegin(r, c, v, n) ==
    /\ pc[r] = "idle"
    /\ req' = [req EXCEPT ![r] = Request("rename", c, v, n)]
    /\ IF PatchChecks(c, v, n).status # 0
       THEN Finish(r, PatchChecks(c, v, n))
       ELSE /\ pc' = [pc EXCEPT ![r] = "rename"]
            /\ UNCHANGED resp
    /\ UNCHANGED <<routerVars, serviceVars, rows, wf, clock, snap, txw, txwf>>

\* a rename that also takes the row out of service
RenamedAndDeactivated(row, n) == [row EXCEPT !.name = Trim(n), !.isActive = FALSE]

\* a rename that appends to the stored name
RenamedAppends(row, n) == [row EXCEPT !.name = @ \o Trim(n)]

\* the row after .set({ name: trimmedName })
Renamed(row, n) == [row EXCEPT !.name = Trim(n)]

\* lines 123-142: the UPDATE (its own transaction) on an existing row; it
\* waits for an open transaction that has written the row
PatchUpdate(r) ==
    /\ pc[r] = "rename"
    /\ req[r].version \in Versions
    /\ ~LockedByOther(r, req[r].version)
    /\ rows' = [rows EXCEPT ![req[r].version] = Renamed(@, req[r].name)]
    /\ Finish(r, [Response(200, "") EXCEPT !.name = Trim(req[r].name)])
    /\ UNCHANGED <<routerVars, serviceVars, wf, clock, req, snap, txw, txwf>>

\* lines 123-136: no row matched
PatchMissing(r) ==
    /\ pc[r] = "rename"
    /\ req[r].version \notin Versions
    /\ Finish(r, Response(404, "Deployment version not found"))
    /\ UNCHANGED <<routerVars, serviceVars, rows, wf, clock, req, snap, txw, txwf>>

----------------------------------------------------------------------------
(* GET *)

\* the versions of W ordered by version descending
VersionsDesc ==
    [i \in 1..MaxVersion |->
        [version |-> MaxVersion + 1 - i,
         name |-> rows[MaxVersion + 1 - i].name,
         isActive |-> rows[MaxVersion + 1 - i].isActive]]

\* deployments/route.ts GET
GetList(r, c) ==
    /\ pc[r] = "idle"
    /\ req' = [req EXCEPT ![r] = Request("list", c, NotANumber, <<>>)]
    /\ Finish(r, IF ~Authenticated(c) THEN Response(401, "Unauthorized")
                 ELSE IF ~HasAccess(c) THEN Response(403, "Access denied")
                 ELSE [Response(200, "") EXCEPT !.versions = VersionsDesc])
    /\ UNCHANGED <<routerVars, serviceVars, rows, wf, clock, snap, txw, txwf>>

\* the serialized snapshot stored in row v
StateOf(v) == rows[v].state

\* deployments/[version]/route.ts GET
GetVersion(r, c, v) ==
    /\ pc[r] = "idle"
    /\ req' = [req EXCEPT ![r] = Request("get", c, v, <<>>)]
    /\ Finish(r, IF ~Authenticated(c) THEN Response(401, "Unauthorized")
                 ELSE IF ~HasAccess(c) THEN Response(403, "Access denied")
                 ELSE IF v = NotANumber THEN Response(400, "Invalid version")
                 ELSE IF v \notin Versions
                 THEN Response(404, "Deployment version not found")
                 ELSE [Response(200, "") EXCEPT !.deployedState = StateOf(v)])
    /\ UNCHANGED <<routerVars, serviceVars, rows, wf, clock, snap, txw, txwf>>

----------------------------------------------------------------------------

----------------------------------------------------------------------------
(* Part 2: the intent router *)

MaxEdges == 3
MaxResponseLen == 3

\* block ids of the execution context
RouterId == <<"r">>
TriggerId == <<"t">>
IdA == <<"a">>
IdAA == <<"a", "a">>
IdUpper == <<"A">>

CandidateBlocks == {IdA, IdAA, IdUpper}

\* context.workflow.blocks
WorkflowBlocks ==
    {RouterId} \cup CandidateBlocks \cup (IF hasTrigger THEN {TriggerId} ELSE {})

\* block.metadata: id is the type tag, name the title; "" stands for a
\* missing field (block IdAA carries no metadata)
Metadata(id) ==
    CASE id = IdA -> [id |-> "agent", name |-> "Alpha"]
      [] id = IdAA -> [id |-> "", name |-> ""]
      [] id = IdUpper -> [id |-> "function", name |-> "Gamma"]
      [] id = block.id -> [id |-> block.type, name |-> block.name]
      [] OTHER -> [id |-> "vyin_chatbot", name |-> "Vyin Chat"]

Edge(s, t) == [source |-> s, target |-> t]

\* the edges a workflow of the model is made of
EdgePool ==
    { Edge(RouterId, IdA), Edge(RouterId, IdAA), Edge(RouterId, IdUpper),
      Edge(IdA, RouterId), Edge(IdAA, IdA) }

Graphs == UNION {[1..n -> EdgePool] : n \in 0..MaxEdges}

Alphabet == {"a", "A", " ", "\n"}

\* String.prototype.toLowerCase
LowerChar(c) == IF c = "A" THEN "a" ELSE c
ToLower(s) == [i \in 1..Len(s) |-> LowerChar(s[i])]

\* the texts the gateway may answer
ResponseTexts == UNION {[1..n -> Alphabet] : n \in 0..MaxResponseLen}

\* tools/vyin: the registered tool ids
RegisteredTools == {"vyin_bot_assistant", "vyin_chat_response"}

\* a registry that answers for every id
GetToolAny(id) == TRUE

\* getTool(id): TRUE when it answers a tool
GetTool(id) == id \in RegisteredTools

NoFields == [k \in {} |-> <<>>]

\* (record.key || '')
OrEmpty(record, key) == IF key \in DOMAIN record THEN record[key] ELSE <<>>

\* getVyinChatTriggerPayload: {} unless the trigger block exists and has
\* written its output
VyinChatTriggerPayload ==
    IF ~hasTrigger THEN NoFields
    ELSE IF TriggerId \notin DOMAIN blockStates THEN NoFields
    ELSE [k \in {"app_id", "api_token", "channel_url", "bot_user_id", "bot_uid"} |->
             OrEmpty(blockStates[TriggerId].output, k)]

\* context.blockStates.get(id)?.output, <<>> when absent
CurrentState(id) ==
    IF id \in DOMAIN blockStates THEN <<blockStates[id].output>> ELSE <<>>

\* lines 172-182: the descriptor of one target block
Descriptor(id) ==
    [id |-> id, type |-> Metadata(id).id, title |-> Metadata(id).name,
     currentState |-> CurrentState(id)]

\* the exclusion set taken from the wrong end of the edges
PreviousBlockIdsBySource(b) ==
    {connections[i].source :
        i \in {j \in DOMAIN connections : connections[j].source = b}}

\* lines 145-149
PreviousBlockIds(b) ==
    {connections[i].source :
        i \in {j \in DOMAIN connections : connections[j].target = b}}

IsOutgoing(b, conn) == conn.source = b

\* getTargetBlocks with the final filter left out
GetTargetBlocksNoFilter(b) ==
    LET out == SelectSeq(connections, LAMBDA conn : IsOutgoing(b, conn))
    IN  [i \in 1..Len(out) |-> Descriptor(out[i].target)]

\* lines 143-185: getTargetBlocks
GetTargetBlocks(b) ==
    LET out == SelectSeq(connections, LAMBDA conn : IsOutgoing(b, conn))
        mapped == [i \in 1..Len(out) |-> Descriptor(out[i].target)]
    IN  SelectSeq(mapped, LAMBDA t : t.id \notin PreviousBlockIds(b))

\* line 156: a connection whose target is no block of the workflow; the
\* workflows of the model keep the graph invariant, so it never throws
MissingTarget(b) ==
    \E i \in DOMAIN connections :
        connections[i].source = b /\ connections[i].target \notin WorkflowBlocks

\* what a handler is given and leaves alone: the execution context, the
\* block and the environment
contextVars ==
    <<connections, hasTrigger, blockStates, toolId, inputs, block, gimBaseUrl>>

\* BlockType.VYIN_INTENT_ROUTER
VYIN_INTENT_ROUTER == "vyin_intent_router"

\* the handlers of executor/handlers/vyin
Handlers ==
    {"VyinIntentRouterBlockHandler", "VyinBotAssistantBlockHandler",
     "VyinChatResponseBlockHandler"}

\* canHandle with the chat response handler claiming the bot assistant's
\* blocks as well
CanHandleSharedTag(handler, b) ==
    CASE handler = "VyinIntentRouterBlockHandler" -> b.type = VYIN_INTENT_ROUTER
      [] handler = "VyinBotAssistantBlockHandler" -> b.type = "vyin_bot_assistant"
      [] OTHER -> b.type \in {"vyin_chat_response", "vyin_bot_assistant"}

\* canHandle(block): block.metadata?.id === the handler's type tag
CanHandle(handler, b) ==
    CASE handler = "VyinIntentRouterBlockHandler" -> b.type = VYIN_INTENT_ROUTER
      [] handler = "VyinBotAssistantBlockHandler" -> b.type = "vyin_bot_assistant"
      [] OTHER -> b.type = "vyin_chat_response"

NoProps == [k \in {} |-> <<>>]

Error(message, arg) == [message |-> message, arg |-> arg, props |-> NoProps]

NoError == Error("", <<>>)

\* line 37: block.config.tool || 'vyin_bot_assistant'
ToolId == IF toolId = "" THEN "vyin_bot_assistant" ELSE toolId

BotProfile == Trim(inputs.botProfile)
AppId == Trim(OrEmpty(VyinChatTriggerPayload, "app_id"))
ApiToken == Trim(OrEmpty(VyinChatTriggerPayload, "api_token"))

\* lines 36-57: the error thrown before the gateway is called, if any
ExecuteChecks ==
    IF ~GetTool(ToolId) THEN Error("Tool not found: ", <<ToolId>>)
    ELSE IF BotProfile = <<>> THEN Error("Bot profile is required", <<>>)
    ELSE IF inputs.userInput = <<>> THEN Error("User input is required", <<>>)
    ELSE IF AppId = <<>> THEN Error("Missing GIM application ID", <<>>)
    ELSE IF ApiToken = <<>> THEN Error("Missing GIM API token", <<>>)
    ELSE NoError

\* inputs.intentRoutes when it is no array
NotAnArray == [isArray |-> FALSE, items |-> <<>>]

\* lines 63-68: Array.isArray(inputs.intentRoutes) ? ... : []
Routes == IF inputs.intentRoutes.isArray THEN inputs.intentRoutes.items ELSE <<>>

\* generateIntentRouterPrompt: the parts the prompt text is assembled from
GenerateIntentRouterPrompt(routes, userInput, targets) ==
    [routes |-> routes, userInput |-> userInput, targetBlocks |-> targets]

\* the index of the first "gate" in a URL, 0 when there is none
FirstGate(s) ==
    IF \E i \in DOMAIN s : s[i] = "gate"
    THEN CHOOSE i \in DOMAIN s :
            s[i] = "gate" /\ \A j \in DOMAIN s : s[j] = "gate" => i <= j
    ELSE 0

\* getGimBaseUrl(appId): env.GIM_BASE_URL without a leading "@" and with its
\* first "gate" replaced by the application id; a URL is a sequence of
\* pieces of text
GetGimBaseUrl(appId) ==
    LET normalizedBase ==
            IF gimBaseUrl # <<>> /\ Head(gimBaseUrl) = "@"
            THEN Tail(gimBaseUrl) ELSE gimBaseUrl
        g == FirstGate(normalizedBase)
    IN  IF normalizedBase = <<>> THEN <<>>
        ELSE IF appId = <<>> THEN normalizedBase
        ELSE IF g = 0 THEN normalizedBase
        ELSE SubSeq(normalizedBase, 1, g - 1) \o appId
                \o SubSeq(normalizedBase, g + 1, Len(normalizedBase))

\* lines 79-95: the params handed to executeTool
Params(targets) ==
    [toolId |-> ToolId,
     url |-> GetGimBaseUrl(AppId) \o <<"/v1/applications/">> \o AppId
                \o <<"/bots/">> \o BotProfile \o <<"/ask">>,
     apiToken |-> ApiToken,
     botId |-> BotProfile,
     systemPrompt |-> GenerateIntentRouterPrompt(Routes, inputs.userInput, targets)]

NoResult == [success |-> FALSE, response |-> <<>>, error |-> "", output |-> <<>>]

\* the error of a failed call with the gateway's partial output left out
ExecutionErrorWithoutOutput(result, defaultMessage, defaultName) ==
    [message |-> IF result.error = "" THEN defaultMessage ELSE result.error,
     arg |-> <<>>,
     props |-> [blockId |-> block.id,
                blockName |-> IF block.name = "" THEN defaultName ELSE block.name,
                output |-> <<>>]]

\* the error thrown when executeTool answers success = false:
\* new Error(result.error || defaultMessage) with blockId, blockName and
\* output assigned; <<>> stands for the {} of result.output || {}
ExecutionError(result, defaultMessage, defaultName) ==
    [message |-> IF result.error = "" THEN defaultMessage ELSE result.error,
     arg |-> <<>>,
     props |-> [blockId |-> block.id,
                blockName |-> IF block.name = "" THEN defaultName ELSE block.name,
                output |-> result.output]]

\* line 107 without toLowerCase
ResponseTextKeepsCase(result) == Trim(result.response)

\* line 107: String(result.output?.response || '').trim().toLowerCase()
ResponseText(result) == ToLower(Trim(result.response))

\* find with the ids lower-cased before the comparison
ChosenIndexIgnoreCase(targets, id) ==
    IF \E i \in DOMAIN targets : ToLower(targets[i].id) = id
    THEN CHOOSE i \in DOMAIN targets :
            /\ ToLower(targets[i].id) = id
            /\ \A j \in DOMAIN targets : ToLower(targets[j].id) = id => i <= j
    ELSE 0

\* line 110: targetBlocks.find((b) => b.id === chosenBlockId), 0 when none
ChosenIndex(targets, id) ==
    IF \E i \in DOMAIN targets : targets[i].id = id
    THEN CHOOSE i \in DOMAIN targets :
            /\ targets[i].id = id
            /\ \A j \in DOMAIN targets : targets[j].id = id => i <= j
    ELSE 0

\* selectedPath without the || defaults
SelectedPathNoDefaults(chosen) ==
    [blockId |-> chosen.id, blockType |-> chosen.type, blockTitle |-> chosen.title]

\* lines 122-126
SelectedPath(chosen) ==
    [blockId |-> chosen.id,
     blockType |-> IF chosen.type = "" THEN "unknown" ELSE chosen.type,
     blockTitle |-> IF chosen.title = "" THEN "Untitled Block" ELSE chosen.title]

NoOutput ==
    [userInput |-> <<>>,
     selectedPath |-> [blockId |-> <<>>, blockType |-> "", blockTitle |-> ""]]

\* lines 33-95: the candidate list, the checks and the call of executeTool
RouterExecute ==
    /\ rpc = "ready"
    /\ CanHandle("VyinIntentRouterBlockHandler", block)
    /\ ~MissingTarget(RouterId)
    /\ targetBlocks' = GetTargetBlocks(RouterId)
    /\ IF ExecuteChecks # NoError
       THEN /\ rpc' = "threw"
            /\ thrown' = ExecuteChecks
            /\ UNCHANGED gatewayCalls
       ELSE /\ rpc' = "awaiting"
            /\ gatewayCalls' = Append(gatewayCalls, Params(GetTargetBlocks(RouterId)))
            /\ UNCHANGED thrown
    /\ UNCHANGED <<deployVars, serviceVars, contextVars, fetches, history, gatewayResult, output>>

\* lines 97-105: executeTool answered success = false
GatewayFailure(error, partial) ==
    /\ rpc = "awaiting"
    /\ CanHandle("VyinIntentRouterBlockHandler", block)
    /\ gatewayResult' =
          [success |-> FALSE, response |-> <<>>, error |-> error, output |-> partial]
    /\ rpc' = "threw"
    /\ thrown' = ExecutionError(gatewayResult', "vyin_bot_assistant failed",
                                "Intent Router")
    /\ UNCHANGED <<deployVars, serviceVars, contextVars, fetches, history, targetBlocks,
                   gatewayCalls, output>>

\* the decision with the routes' targets preferred to the gateway's answer
DecideByRoutes(ins, targets, result) ==
    LET routed == {i \in DOMAIN targets :
                      /\ ins.intentRoutes.isArray
                      /\ \E k \in DOMAIN ins.intentRoutes.items :
                            ins.intentRoutes.items[k].routeTo = targets[i].id}
        chosenBlockId == ResponseText(result)
        i == IF routed # {} THEN CHOOSE r \in routed : \A o \in routed : r <= o
             ELSE ChosenIndex(targets, chosenBlockId)
    IN  IF i = 0
        THEN [rpc |-> "threw",
              thrown |-> Error("Invalid routing decision: ", chosenBlockId),
              output |-> NoOutput]
        ELSE [rpc |-> "returned",
              thrown |-> NoError,
              output |-> [userInput |-> ins.userInput,
                          selectedPath |-> SelectedPath(targets[i])]]

\* lines 107-128: what execute does with a successful answer of the gateway,
\* given the block's inputs and the candidate list
Decide(ins, targets, result) ==
    LET chosenBlockId == ResponseText(result)
        i == ChosenIndex(targets, chosenBlockId)
    IN  IF i = 0
        THEN [rpc |-> "threw",
              thrown |-> Error("Invalid routing decision: ", chosenBlockId),
              output |-> NoOutput]
        ELSE [rpc |-> "returned",
              thrown |-> NoError,
              output |-> [userInput |-> ins.userInput,
                          selectedPath |-> SelectedPath(targets[i])]]

\* lines 107-128: executeTool answered success = true with this response
GatewaySuccess(text) ==
    /\ rpc = "awaiting"
    /\ CanHandle("VyinIntentRouterBlockHandler", block)
    /\ gatewayResult' =
          [success |-> TRUE, response |-> text, error |-> "", output |-> <<>>]
    /\ LET decision == Decide(inputs, targetBlocks, gatewayResult')
       IN  /\ rpc' = decision.rpc
           /\ thrown' = decision.thrown
           /\ output' = decision.output
    /\ UNCHANGED <<deployVars, serviceVars, contextVars, fetches, history, targetBlocks,
                   gatewayCalls>>

\* the outputs the trigger block may have written
TriggerOutputs ==
    {[app_id |-> a, api_token |-> k] :
        a \in {<<>>, <<"g", " ">>}, k \in {<<>>, <<" ">>, <<"k">>}}

\* block IdA has run, the trigger has run or not
BlockStateStores ==
    {[id \in {IdA} |-> [output |-> [app_id |-> <<>>, api_token |-> <<>>]]]}
    \cup
    {[id \in {IdA, TriggerId} |->
         [output |-> IF id = TriggerId THEN o ELSE [app_id |-> <<>>, api_token |-> <<>>]]] :
        o \in TriggerOutputs}

RouterInputs ==
    [botProfile : {<<>>, <<"b", " ">>},
     userInput : {<<>>, <<"h">>},
     intentRoutes : {NotAnArray,
                     [isArray |-> TRUE,
                      items |-> <<[routeTo |-> IdA, keywords |-> "x, y"]>>]}]

NoBlock == [id |-> <<>>, type |-> "", name |-> ""]

\* the router block of the workflows
RouterBlock == [id |-> RouterId, type |-> VYIN_INTENT_ROUTER, name |-> "Support Router"]

\* a GIM_BASE_URL with the subdomain placeholder "gate"
ConfiguredGimBaseUrl == <<"https://", "gate", ".gim.test">>

\* no router execution takes place
RouterOff ==
    /\ connections = <<>>
    /\ hasTrigger = FALSE
    /\ blockStates = [id \in {} |-> [output |-> <<>>]]
    /\ toolId = ""
    /\ inputs = [botProfile |-> <<>>, userInput |-> <<>>, intentRoutes |-> NotAnArray]
    /\ rpc = "off"
    /\ targetBlocks = <<>>
    /\ gatewayCalls = <<>>
    /\ gatewayResult = NoResult
    /\ output = NoOutput
    /\ thrown = NoError
    /\ block = NoBlock
    /\ gimBaseUrl = <<>>
    /\ fetches = <<>>
    /\ history = <<>>

\* the orchestrator has reached the router block of some workflow
RouterInit ==
    /\ DeployInit
    /\ MiddlewareOff /\ EmbedOff /\ EnvOff /\ DupOff
    /\ connections \in Graphs
    /\ hasTrigger \in BOOLEAN
    /\ blockStates \in BlockStateStores
    /\ (TriggerId \in DOMAIN blockStates => hasTrigger)
    /\ toolId \in {"", "unknown_tool"}
    /\ inputs \in RouterInputs
    /\ rpc = "ready"
    /\ targetBlocks = <<>>
    /\ gatewayCalls = <<>>
    /\ gatewayResult = NoResult
    /\ output = NoOutput
    /\ thrown = NoError
    /\ block = RouterBlock
    /\ gimBaseUrl = ConfiguredGimBaseUrl
    /\ fetches = <<>>
    /\ history = <<>>

RouterNext ==
    \/ RouterExecute
    \/ \E e \in {"", "HTTP 502"}, o \in {<<>>, <<"partial">>} : GatewayFailure(e, o)
    \/ \E text \in ResponseTexts : GatewaySuccess(text)

RouterSpec == RouterInit /\ [][RouterNext]_vars

----------------------------------------------------------------------------
(* Part 3: the bot assistant and the chat response handler *)

\* a || b on strings
Or(a, b) == IF a # <<>> THEN a ELSE b

ChannelUrl == Trim(OrEmpty(VyinChatTriggerPayload, "channel_url"))
BotUserId == Trim(OrEmpty(VyinChatTriggerPayload, "bot_user_id"))

\* bot assistant line 34: (vyin.bot_uid || inputs.botId || '').trim()
BotId == Trim(Or(OrEmpty(VyinChatTriggerPayload, "bot_uid"), OrEmpty(inputs, "botId")))

\* bot assistant line 38
Prompt == OrEmpty(inputs, "prompt")

\* bot assistant line 39: Boolean(inputs.includeHistory)
IncludeHistory == "includeHistory" \in DOMAIN inputs /\ inputs.includeHistory

\* the checks without those of the credentials
BotAssistantChecksNoCredentials ==
    IF ~GetTool(toolId) THEN Error("Tool not found: ", <<toolId>>)
    ELSE IF BotId = <<>> THEN Error("Bot ID is required (from trigger or input)", <<>>)
    ELSE IF Prompt = <<>> THEN Error("Prompt is required", <<>>)
    ELSE NoError

\* bot assistant lines 25-58: the error thrown before any request, if any
BotAssistantChecks ==
    IF ~GetTool(toolId) THEN Error("Tool not found: ", <<toolId>>)
    ELSE IF BotId = <<>> THEN Error("Bot ID is required (from trigger or input)", <<>>)
    ELSE IF Prompt = <<>> THEN Error("Prompt is required", <<>>)
    ELSE IF AppId = <<>> THEN Error("Missing GIM application ID", <<>>)
    ELSE IF ApiToken = <<>> THEN Error("Missing GIM API token", <<>>)
    ELSE NoError

\* encodeURIComponent on the characters of the model
EncodeChar(c) ==
    CASE c = "/" -> "%2F"
      [] c = " " -> "%20"
      [] OTHER -> c

EncodeURIComponent(s) == [i \in 1..Len(s) |-> EncodeChar(s[i])]

\* messages.ts lines 20-25: the url of the history request
HistoryUrl ==
    GetGimBaseUrl(AppId) \o <<"/v2/group_channels/">> \o EncodeURIComponent(ChannelUrl)
        \o <<"/messages?message_ts=9999999999999">>

\* bot assistant line 65 and messages.ts lines 20-24: the history is asked
\* for and a base URL is configured
FetchesHistory ==
    /\ IncludeHistory
    /\ ChannelUrl # <<>>
    /\ BotUserId # <<>>
    /\ GetGimBaseUrl(AppId) # <<>>

MaxHistoryChars == 4000

\* buildVyinBotPrompts: the parts of the final prompts; the history is
\* trimmed and cut to its last maxHistoryChars characters
BuildVyinBotPrompts(systemPrompt, userPrompt, h) ==
    LET trimmedHistory == Trim(h)
        slice == IF Len(trimmedHistory) > MaxHistoryChars
                 THEN <<"...">> \o SubSeq(trimmedHistory,
                                          Len(trimmedHistory) - MaxHistoryChars + 1,
                                          Len(trimmedHistory))
                 ELSE trimmedHistory
    IN  [systemPrompt |-> [system |-> Trim(systemPrompt), history |-> slice],
         userPrompt |-> Trim(userPrompt)]

\* bot assistant lines 60-115: the params handed to executeTool
BotAssistantParams(h) ==
    LET final == BuildVyinBotPrompts(Prompt, Prompt, h)
    IN  [toolId |-> toolId,
         url |-> GetGimBaseUrl(AppId) \o <<"/v1/applications/">> \o AppId
                    \o <<"/bots/">> \o BotId \o <<"/ask">>,
         apiToken |-> ApiToken,
         botId |-> BotId,
         prompt |-> final.systemPrompt,
         systemPrompt |-> final.systemPrompt]

\* bot assistant lines 23-72: the checks, then the history request or, when
\* no history is fetched, the call of executeTool
BotAssistantExecute ==
    /\ rpc = "ready"
    /\ CanHandle("VyinBotAssistantBlockHandler", block)
    /\ IF BotAssistantChecks # NoError
       THEN /\ rpc' = "threw"
            /\ thrown' = BotAssistantChecks
            /\ UNCHANGED <<gatewayCalls, fetches>>
       ELSE IF FetchesHistory
       THEN /\ rpc' = "fetching"
            /\ fetches' = Append(fetches, HistoryUrl)
            /\ UNCHANGED <<gatewayCalls, thrown>>
       ELSE /\ rpc' = "awaiting"
            /\ gatewayCalls' = Append(gatewayCalls, BotAssistantParams(<<>>))
            /\ UNCHANGED <<fetches, thrown>>
    /\ UNCHANGED <<deployVars, serviceVars, contextVars, history, targetBlocks, gatewayResult,
                   output>>

\* bot assistant lines 66-115: fetchAndFormatMessageHistory answered h ('' on
\* any failure), the prompts are built and executeTool is called
BotAssistantHistory(h) ==
    /\ rpc = "fetching"
    /\ history' = h
    /\ gatewayCalls' = Append(gatewayCalls, BotAssistantParams(h))
    /\ rpc' = "awaiting"
    /\ UNCHANGED <<deployVars, serviceVars, contextVars, fetches, targetBlocks, gatewayResult,
                   output, thrown>>

\* bot assistant lines 117-125: executeTool answered success = false
BotAssistantFailure(error, partial) ==
    /\ rpc = "awaiting"
    /\ CanHandle("VyinBotAssistantBlockHandler", block)
    /\ gatewayResult' =
          [success |-> FALSE, response |-> <<>>, error |-> error, output |-> partial]
    /\ rpc' = "threw"
    /\ thrown' = ExecutionError(gatewayResult', "Vyin Bot Assistant failed",
                                "Vyin Bot Assistant")
    /\ UNCHANGED <<deployVars, serviceVars, contextVars, fetches, history, targetBlocks,
                   gatewayCalls, output>>

\* a handler that stores its output itself, over what the store holds
BotAssistantSuccessStoresOutput(text) ==
    /\ rpc = "awaiting"
    /\ CanHandle("VyinBotAssistantBlockHandler", block)
    /\ gatewayResult' =
          [success |-> TRUE, response |-> text, error |-> "", output |-> <<>>]
    /\ rpc' = "returned"
    /\ output' = [response |-> text, historyConversation |-> history]
    /\ blockStates' =
          [id \in DOMAIN blockStates \cup {TriggerId} |-> [output |-> output']]
    /\ UNCHANGED <<deployVars, serviceVars, connections, hasTrigger, toolId, inputs, block,
                   gimBaseUrl, fetches, history, targetBlocks, gatewayCalls, thrown>>

\* bot assistant lines 127-130: executeTool answered success = true
BotAssistantSuccess(text) ==
    /\ rpc = "awaiting"
    /\ CanHandle("VyinBotAssistantBlockHandler", block)
    /\ gatewayResult' =
          [success |-> TRUE, response |-> text, error |-> "", output |-> <<>>]
    /\ rpc' = "returned"
    /\ output' = [response |-> text, historyConversation |-> history]
    /\ UNCHANGED <<deployVars, serviceVars, contextVars, fetches, history, targetBlocks,
                   gatewayCalls, thrown>>

\* chat response lines 23-26
ChatResponseChecks ==
    IF ~GetTool(toolId) THEN Error("Tool not found: ", <<toolId>>) ELSE NoError

\* chat response lines 28-74: the params handed to executeTool
ChatResponseParams ==
    [toolId |-> toolId,
     url |-> GetGimBaseUrl(AppId) \o
                (IF ChannelUrl # <<>>
                 THEN <<"/v2/group_channels/">> \o EncodeURIComponent(ChannelUrl)
                         \o <<"/messages">>
                 ELSE <<>>),
     apiToken |-> ApiToken,
     botUserId |-> BotUserId,
     message |-> OrEmpty(inputs, "message")]

\* chat response lines 22-74
ChatResponseExecute ==
    /\ rpc = "ready"
    /\ CanHandle("VyinChatResponseBlockHandler", block)
    /\ IF ChatResponseChecks # NoError
       THEN /\ rpc' = "threw"
            /\ thrown' = ChatResponseChecks
            /\ UNCHANGED gatewayCalls
       ELSE /\ rpc' = "awaiting"
            /\ gatewayCalls' = Append(gatewayCalls, ChatResponseParams)
            /\ UNCHANGED thrown
    /\ UNCHANGED <<deployVars, serviceVars, contextVars, fetches, history, targetBlocks,
                   gatewayResult, output>>

\* chat response lines 76-84: executeTool answered success = false
ChatResponseFailure(error, partial) ==
    /\ rpc = "awaiting"
    /\ CanHandle("VyinChatResponseBlockHandler", block)
    /\ gatewayResult' =
          [success |-> FALSE, response |-> <<>>, error |-> error, output |-> partial]
    /\ rpc' = "threw"
    /\ thrown' = ExecutionError(gatewayResult', "Vyin Chat Response failed",
                                "Vyin Chat Response")
    /\ UNCHANGED <<deployVars, serviceVars, contextVars, fetches, history, targetBlocks,
                   gatewayCalls, output>>

\* chat response line 86: executeTool answered success = true
ChatResponseSuccess(data) ==
    /\ rpc = "awaiting"
    /\ CanHandle("VyinChatResponseBlockHandler", block)
    /\ gatewayResult' =
          [success |-> TRUE, response |-> data, error |-> "", output |-> <<>>]
    /\ rpc' = "returned"
    /\ output' = [data |-> data]
    /\ UNCHANGED <<deployVars, serviceVars, contextVars, fetches, history, targetBlocks,
                   gatewayCalls, thrown>>

\* block ids of the blocks the handlers are asked about
BotBlockId == <<"b">>
ChatBlockId == <<"c">>
OtherBlockId == <<"o">>

\* the type tags of the blocks: the three handlers', the trigger's, another
\* block's, and none
BlockTypes ==
    {VYIN_INTENT_ROUTER, "vyin_bot_assistant", "vyin_chat_response", "vyin_chatbot",
     "agent", ""}

BlockIdOf(type) ==
    CASE type = VYIN_INTENT_ROUTER -> RouterId
      [] type = "vyin_bot_assistant" -> BotBlockId
      [] type = "vyin_chat_response" -> ChatBlockId
      [] OTHER -> OtherBlockId

\* the blocks handed to the handlers, with and without a name
HandlerBlocks ==
    {[id |-> BlockIdOf(t), type |-> t, name |-> n] :
        t \in BlockTypes, n \in {"", "My Block"}}

\* the outputs the trigger block may have written
HandlerTriggerOutputs ==
    [app_id : {<<>>, <<"g", " ">>},
     api_token : {<<>>, <<"k">>},
     channel_url : {<<>>, <<"c", "/", "1">>},
     bot_user_id : {<<>>, <<"u">>},
     bot_uid : {<<>>, <<" ">>}]

\* the trigger has run or not
HandlerBlockStateStores ==
    {[id \in {} |-> [output |-> <<>>]]}
    \cup {[id \in {TriggerId} |-> [output |-> o]] : o \in HandlerTriggerOutputs}

\* the resolved inputs of the block, by its type
HandlerInputs(type) ==
    CASE type = VYIN_INTENT_ROUTER ->
           [botProfile : {<<>>, <<"b", " ">>},
            userInput : {<<>>, <<"h">>},
            intentRoutes : {NotAnArray}]
      [] type = "vyin_bot_assistant" ->
           [botId : {<<>>, <<"b">>},
            prompt : {<<>>, <<"p", " ">>},
            includeHistory : BOOLEAN]
      [] OTHER -> [message : {<<"m">>}]

\* the workflows the router block of these runs is in
HandlerGraphs == {<<>>, <<Edge(RouterId, IdA), Edge(RouterId, IdAA)>>}

\* the values of env.GIM_BASE_URL: unset, with a leading "@" and the
\* subdomain placeholder, without either
GimBaseUrls ==
    {<<>>, <<"@">> \o ConfiguredGimBaseUrl, <<"https://", "api.gim.test">>}

\* what fetchAndFormatMessageHistory may answer
HistoryTexts == {<<>>, <<"U", "s", "e", "r", ":", " ", "h", "i", "\n">>}

\* what executeTool may answer as result.output of a successful call
ToolOutputs == {<<>>, <<"o", "k">>}

\* the executor has reached some block and asks the handlers
HandlersInit ==
    /\ DeployInit
    /\ MiddlewareOff /\ EmbedOff /\ EnvOff /\ DupOff
    /\ block \in HandlerBlocks
    /\ connections \in
          (IF block.type = VYIN_INTENT_ROUTER THEN HandlerGraphs ELSE {<<>>})
    /\ hasTrigger \in BOOLEAN
    /\ blockStates \in HandlerBlockStateStores
    /\ (TriggerId \in DOMAIN blockStates => hasTrigger)
    /\ toolId \in {"", "unknown_tool"} \cup RegisteredTools
    /\ inputs \in HandlerInputs(block.type)
    /\ gimBaseUrl \in GimBaseUrls
    /\ rpc = "ready"
    /\ targetBlocks = <<>>
    /\ gatewayCalls = <<>>
    /\ gatewayResult = NoResult
    /\ output = NoOutput
    /\ thrown = NoError
    /\ fetches = <<>>
    /\ history = <<>>

HandlersNext ==
    \/ RouterExecute
    \/ \E e \in {"", "HTTP 502"}, o \in {<<>>, <<"partial">>} : GatewayFailure(e, o)
    \/ \E text \in ResponseTexts : GatewaySuccess(text)
    \/ BotAssistantExecute
    \/ \E h \in HistoryTexts : BotAssistantHistory(h)
    \/ \E e \in {"", "HTTP 502"}, o \in {<<>>, <<"partial">>} :
          BotAssistantFailure(e, o)
    \/ \E text \in ToolOutputs : BotAssistantSuccess(text)
    \/ ChatResponseExecute
    \/ \E e \in {"", "HTTP 502"}, o \in {<<>>, <<"partial">>} :
          ChatResponseFailure(e, o)
    \/ \E data \in ToolOutputs : ChatResponseSuccess(data)

HandlersSpec == HandlersInit /\ [][HandlersNext]_vars

----------------------------------------------------------------------------
(* The block state store as the orchestrator writes it *)

\* blockStates.set(id, { output }): the first write of a key stores it, a
\* write of a key that is present is refused and changes nothing
StoreSet(id, out) ==
    /\ rpc # "off"
    /\ id \notin DOMAIN blockStates
    /\ blockStates' =
          [k \in DOMAIN blockStates \cup {id} |->
              IF k = id THEN [output |-> out] ELSE blockStates[k]]
    /\ UNCHANGED <<deployVars, serviceVars, connections, hasTrigger, toolId, inputs, block,
                   gimBaseUrl, rpc, targetBlocks, gatewayCalls, gatewayResult,
                   output, thrown, fetches, history>>

\* the output of another block of the run
OtherOutput == [response |-> <<"o", "k">>]

\* the handlers and the orchestrator that stores the outputs: of the
\* executed block once execute has returned, of another block at any time
StoreNext ==
    \/ HandlersNext
    \/ rpc = "returned" /\ StoreSet(block.id, output)
    \/ StoreSet(IdA, OtherOutput)

StoreSpec == HandlersInit /\ [][StoreNext]_vars


----------------------------------------------------------------------------
(* Part 4: middleware() of apps/sim/middleware.ts with the embed scope     *)
(* guard.  A pathname is a sequence of text pieces, "/" being one piece.   *)

\* the workspaces of the requests
W1 == <<"W1">>
W2 == <<"W2">>

\* the pathnames of the model: pages and APIs of both workspaces, a
\* pathname with no workspace id, an internal endpoint, a workflow API and
\* the pages the rest of middleware() tells apart
Pathnames ==
    { <<"/", "workspace", "/">> \o w \o <<"/", "w">> : w \in {W1, W2} }
    \cup { <<"/", "workspace", "/">> \o w : w \in {W2, <<>>} }
    \cup { <<"/", "api", "/", "workspaces", "/">> \o w \o <<"/", "members">> : w \in {W1, W2} }
    \cup { <<"/", "api", "/", "workspaces", "/">> \o w : w \in {W2} }
    \cup { <<"/", "api", "/", "v2", "/", "workspaces", "/">> \o w : w \in {W1, W2} }
    \cup { <<"/", "api", "/", "internal", "/", "workspaces", "/">> \o W2 \o <<"/", "duplicate">>,
           <<"/", "api", "/", "workflows", "/", "f1">>,
           <<"/", "chat", "/", "c1">>,
           <<"/", "login">>,
           <<"/">> }

\* pathname.startsWith(prefix)
StartsWith(pathname, prefix) ==
    /\ Len(pathname) >= Len(prefix)
    /\ SubSeq(pathname, 1, Len(prefix)) = prefix

RECURSIVE Split(_)
\* pathname.split('/'): the pieces between the slashes, <<>> for ''
Split(pathname) ==
    IF \A i \in DOMAIN pathname : pathname[i] # "/"
    THEN <<pathname>>
    ELSE LET i == CHOOSE k \in DOMAIN pathname :
                    pathname[k] = "/" /\ \A j \in 1..(k - 1) : pathname[j] # "/"
         IN  <<SubSeq(pathname, 1, i - 1)>>
                 \o Split(SubSeq(pathname, i + 1, Len(pathname)))

\* parts[n] of JavaScript (counted from 0), <<>> for undefined
Part(parts, n) == IF n + 1 \in DOMAIN parts THEN parts[n + 1] ELSE <<>>

\* the embed cookie of a request: none, a token that does not verify, a
\* token for a workspace, a token whose claims name no workspace
NoCookie == [present |-> FALSE, valid |-> FALSE, workspaceId |-> <<>>]
EmbedCookies ==
    {NoCookie}
    \cup {[present |-> TRUE, valid |-> FALSE, workspaceId |-> W1]}
    \cup {[present |-> TRUE, valid |-> TRUE, workspaceId |-> w] : w \in {W1, <<>>}}

\* verifyEmbedToken(embedJwt): the claims, or null
NoClaims == [isNull |-> TRUE, workspaceId |-> <<>>]
VerifyEmbedToken(cookie) ==
    IF cookie.valid THEN [isNull |-> FALSE, workspaceId |-> cookie.workspaceId]
    ELSE NoClaims

\* the responses of middleware()
NextResponse == [kind |-> "next", status |-> 200, location |-> <<>>, clearsCookie |-> FALSE]
Redirect(to) == [kind |-> "redirect", status |-> 307, location |-> to, clearsCookie |-> FALSE]
Status(code) == [kind |-> "json", status |-> code, location |-> <<>>, clearsCookie |-> FALSE]

\* the scope guard without the API prefixes
EnforceEmbedWorkspaceScopeOfPages(pathname, claims) ==
    IF StartsWith(pathname, <<"/", "workspace", "/">>)
         /\ Part(Split(pathname), 2) # <<>>
         /\ claims.workspaceId # <<>>
         /\ Part(Split(pathname), 2) # claims.workspaceId
    THEN Redirect(<<"/", "workspace", "/">> \o claims.workspaceId \o <<"/", "w">>)
    ELSE NextResponse

\* lines 142-182: the response of the scope guard, NextResponse for null
EnforceEmbedWorkspaceScope(pathname, claims) ==
    LET parts == Split(pathname)
        Scoped(workspaceIdFromUrl) ==
            /\ workspaceIdFromUrl # <<>>
            /\ claims.workspaceId # <<>>
            /\ workspaceIdFromUrl # claims.workspaceId
    IN  IF StartsWith(pathname, <<"/", "workspace", "/">>)
        THEN IF Scoped(Part(parts, 2))
             THEN Redirect(<<"/", "workspace", "/">> \o claims.workspaceId \o <<"/", "w">>)
             ELSE NextResponse
        ELSE IF StartsWith(pathname, <<"/", "api", "/", "workspaces", "/">>)
        THEN IF Scoped(Part(parts, 3)) THEN Status(403) ELSE NextResponse
        ELSE IF StartsWith(pathname, <<"/", "api", "/", "v2", "/", "workspaces", "/">>)
        THEN IF Scoped(Part(parts, 4)) THEN Status(403) ELSE NextResponse
        ELSE NextResponse

\* lines 215-264: middleware() after the embed guard, on the pathnames of
\* the model (none is an invitation path)
AfterEmbedGuard(r) ==
    IF r.pathname = <<"/">>
    THEN IF ~r.isHosted
         THEN IF r.hasActiveSession THEN Redirect(<<"/", "workspace">>)
              ELSE Redirect(<<"/", "login">>)
         ELSE IF r.hasActiveSession THEN Redirect(<<"/", "workspace">>)
              ELSE IF r.suspicious THEN Status(403) ELSE NextResponse
    ELSE IF r.pathname = <<"/", "login">>
    THEN IF r.hasActiveSession THEN Redirect(<<"/", "workspace">>) ELSE NextResponse
    ELSE IF StartsWith(r.pathname, <<"/", "chat", "/">>) THEN NextResponse
    ELSE IF StartsWith(r.pathname, <<"/", "workspace">>)
    THEN IF ~r.hasActiveSession THEN Redirect(<<"/", "login">>) ELSE NextResponse
    ELSE IF r.suspicious THEN Status(403)
    ELSE NextResponse

\* lines 184-264: the response of middleware(request)
MiddlewareResponse(r) ==
    IF r.embedSessionEnabled /\ r.cookie.present
    THEN IF StartsWith(r.pathname, <<"/", "api", "/", "internal", "/">>)
         THEN NextResponse
         ELSE LET claims == VerifyEmbedToken(r.cookie)
              IN  IF claims.isNull
                  THEN [Status(401) EXCEPT !.clearsCookie = TRUE]
                  ELSE LET scopeResult == EnforceEmbedWorkspaceScope(r.pathname, claims)
                       IN  IF scopeResult # NextResponse THEN scopeResult
                           ELSE AfterEmbedGuard(r)
    ELSE AfterEmbedGuard(r)

\* the requests of the model, with isTruthy(env.EMBED_SESSION_ENABLED),
\* isHosted and the verdict of the user agent patterns
MiddlewareRequests ==
    [embedSessionEnabled : BOOLEAN, cookie : EmbedCookies, pathname : Pathnames,
     hasActiveSession : BOOLEAN, isHosted : BOOLEAN, suspicious : BOOLEAN]

\* middleware(request)
Middleware ==
    /\ mwRequest \in MiddlewareRequests
    /\ mwResponse = NoEntries
    /\ mwResponse' = MiddlewareResponse(mwRequest)
    /\ UNCHANGED <<deployVars, routerVars, mwRequest, embedVars, envVars, dupVars>>

MiddlewareInit ==
    /\ DeployInit /\ RouterOff /\ EmbedOff /\ EnvOff /\ DupOff
    /\ mwRequest \in MiddlewareRequests
    /\ mwResponse = NoEntries

MiddlewareNext == Middleware

MiddlewareSpec == MiddlewareInit /\ [][MiddlewareNext]_vars


----------------------------------------------------------------------------
(* Part 5: the signed internal requests and the one-time embed codes.      *)
(* POST /api/internal/auth/embed-session/init verifies the signature of    *)
(* the request (verifySignedRequest) and stores a fresh code (storeCode);  *)
(* GET /api/auth/embed-session/consume trades a code for the embed cookie  *)
(* (consumeCode).  Every await of a handler is a point where the other     *)
(* requests run; the Redis server and the nonce cache execute one command  *)
(* at a time.                                                              *)

NumIssues == 2
NumConsumes == 2
MaxTicks == 2
\* what one step of the clock adds to Date.now(), in milliseconds
TickMs == 60001

SIGNATURE_WINDOW_MS == 60000
CODE_TTL_SECONDS == 120

Issues == 1..NumIssues
Consumes == 1..NumConsumes

\* the x-internal-nonce headers of the requests, <<>> for a missing header
Nonces == {<<"n1">>, <<"n2">>, <<>>}

\* the payload stored with a code
Payload == [workspaceId |-> W1, workflowId |-> <<"f1">>, appId |-> <<"app">>]

\* consumeCode answered null
Null == [isNull |-> TRUE, workspaceId |-> <<>>, workflowId |-> <<>>, appId |-> <<>>]

\* JSON.parse of a stored value
Parsed(value) ==
    [isNull |-> FALSE, workspaceId |-> value.workspaceId,
     workflowId |-> value.workflowId, appId |-> value.appId]

\* generateCode(): the random code of the p-th request, unlike any other
GenerateCode(p) == <<p>>

NoIssue ==
    [pc |-> "idle", nonce |-> <<>>, signed |-> FALSE, ok |-> FALSE,
     error |-> "", status |-> 0, code |-> <<>>]

NoConsume == [pc |-> "idle", code |-> <<>>, value |-> Null, data |-> Null, status |-> 0]

\* Math.abs(now - tsNum) > SIGNATURE_WINDOW_MS
Stale(timestamp) ==
    (IF dateNow >= timestamp THEN dateNow - timestamp ELSE timestamp - dateNow)
        > SIGNATURE_WINDOW_MS

\* the init POST answers 401 with the error of verifySignedRequest
Refuse(p, nonce, signed, error) ==
    issue' = [issue EXCEPT ![p] =
                 [NoIssue EXCEPT !.pc = "done", !.nonce = nonce, !.signed = signed,
                                 !.error = error, !.status = 401]]

\* verifySignedRequest lines 47-68: the headers, the timestamp and the
\* nonce cache are checked; the handler then awaits hasProcessedMessage
VerifyNonce(p, nonce, signed, timestamp) ==
    /\ issue[p].pc = "idle"
    /\ IF nonce = <<>> THEN Refuse(p, nonce, signed, "Missing signature headers")
       ELSE IF Stale(timestamp) THEN Refuse(p, nonce, signed, "Stale request")
       ELSE IF nonce \in processed THEN Refuse(p, nonce, signed, "Replay detected")
       ELSE issue' = [issue EXCEPT ![p] =
                         [NoIssue EXCEPT !.pc = "checked", !.nonce = nonce,
                                         !.signed = signed]]
    /\ UNCHANGED <<deployVars, routerVars, mwVars, envVars, dupVars,
                   dateNow, redis, redisCodes, inMemoryCodes, processed, consume>>

\* verifySignedRequest lines 70-86: the signature is compared and, when it
\* is the expected one, the nonce is marked
VerifySignature(p) ==
    /\ issue[p].pc = "checked"
    /\ IF ~issue[p].signed
       THEN /\ issue' = [issue EXCEPT ![p].pc = "done", ![p].status = 401,
                                      ![p].error = "Invalid signature"]
            /\ UNCHANGED processed
       ELSE /\ processed' = processed \cup {issue[p].nonce}
            /\ issue' = [issue EXCEPT ![p].pc = "verified", ![p].ok = TRUE]
    /\ UNCHANGED <<deployVars, routerVars, mwVars, envVars, dupVars,
                   dateNow, redis, redisCodes, inMemoryCodes, consume>>

\* storeCode lines 15-24
StoreCode(code, payload, ttlSeconds) ==
    LET entry == [value |-> payload, expiry |-> dateNow + ttlSeconds * 1000]
    IN  IF redis
        THEN /\ redisCodes' = [k \in DOMAIN redisCodes \cup {code} |->
                                  IF k = code THEN entry ELSE redisCodes[k]]
             /\ UNCHANGED inMemoryCodes
        ELSE /\ inMemoryCodes' = [k \in DOMAIN inMemoryCodes \cup {code} |->
                                     IF k = code THEN entry ELSE inMemoryCodes[k]]
             /\ UNCHANGED redisCodes

\* init POST lines 16-46: the body is parsed and the code issued
IssueCode(p, complete) ==
    /\ issue[p].pc = "verified"
    /\ IF ~complete
       THEN /\ issue' = [issue EXCEPT ![p].pc = "done", ![p].status = 400]
            /\ UNCHANGED <<redisCodes, inMemoryCodes>>
       ELSE /\ StoreCode(GenerateCode(p), Payload, CODE_TTL_SECONDS)
            /\ issue' = [issue EXCEPT ![p].pc = "done", ![p].status = 200,
                                      ![p].code = GenerateCode(p)]
    /\ UNCHANGED <<deployVars, routerVars, mwVars, envVars, dupVars,
                   dateNow, redis, processed, consume>>

\* consume GET lines 47-118 once consumeCode has answered: 400 for null,
\* else the session and the embed cookie of the payload's workspace
Consumed(c, data) ==
    consume' = [consume EXCEPT ![c].pc = "done", ![c].data = data,
                               ![c].status = IF data.isNull THEN 400 ELSE 204]

\* the key is on the Redis server and has not expired
Live(code) == code \in DOMAIN redisCodes /\ dateNow < redisCodes[code].expiry

\* consume GET lines 23-35 and consumeCode lines 27-31 with Redis: the code
\* is read with redis.get, and the handler awaits the answer
ConsumeGet(c, code) ==
    /\ consume[c].pc = "idle"
    /\ redis
    /\ code # <<>>
    /\ IF Live(code)
       THEN consume' = [consume EXCEPT ![c].pc = "got", ![c].code = code,
                                       ![c].value = Parsed(redisCodes[code].value)]
       ELSE consume' = [consume EXCEPT ![c].pc = "done", ![c].code = code,
                                       ![c].status = 400]
    /\ UNCHANGED <<deployVars, routerVars, mwVars, envVars, dupVars,
                   dateNow, redis, redisCodes, inMemoryCodes, processed, issue>>

\* consumeCode lines 32-37 with Redis: redis.del, then the value read is
\* returned
ConsumeDel(c) ==
    /\ consume[c].pc = "got"
    /\ redisCodes' = [k \in DOMAIN redisCodes \ {consume[c].code} |-> redisCodes[k]]
    /\ Consumed(c, consume[c].value)
    /\ UNCHANGED <<deployVars, routerVars, mwVars, envVars, dupVars,
                   dateNow, redis, inMemoryCodes, processed, issue>>

\* consumeCode lines 39-47 without Redis: no await between get and delete
ConsumeInMemory(c, code) ==
    /\ consume[c].pc = "idle"
    /\ ~redis
    /\ code # <<>>
    /\ IF code \notin DOMAIN inMemoryCodes
       THEN /\ consume' = [consume EXCEPT ![c].pc = "done", ![c].code = code,
                                          ![c].status = 400]
            /\ UNCHANGED inMemoryCodes
       ELSE /\ inMemoryCodes' =
                  [k \in DOMAIN inMemoryCodes \ {code} |-> inMemoryCodes[k]]
            /\ consume' =
                  [consume EXCEPT
                     ![c].pc = "done", ![c].code = code,
                     ![c].data = IF inMemoryCodes[code].expiry < dateNow THEN Null
                                 ELSE Parsed(inMemoryCodes[code].value),
                     ![c].status = IF inMemoryCodes[code].expiry < dateNow THEN 400
                                   ELSE 204]
    /\ UNCHANGED <<deployVars, routerVars, mwVars, envVars, dupVars,
                   dateNow, redis, redisCodes, processed, issue>>

\* consume GET lines 25-30: no code parameter
ConsumeNoCode(c) ==
    /\ consume[c].pc = "idle"
    /\ consume' = [consume EXCEPT ![c].pc = "done", ![c].status = 400]
    /\ UNCHANGED <<deployVars, routerVars, mwVars, envVars, dupVars,
                   dateNow, redis, redisCodes, inMemoryCodes, processed, issue>>

\* time passes
Tick ==
    /\ dateNow < (MaxTicks + 1) * TickMs
    /\ dateNow' = dateNow + TickMs
    /\ UNCHANGED <<deployVars, routerVars, mwVars, envVars, dupVars,
                   redis, redisCodes, inMemoryCodes, processed, issue, consume>>

\* the timestamps a sender signs: the present one, one of a tick ago
Timestamps == {dateNow, dateNow - TickMs}

EmbedInit ==
    /\ DeployInit /\ RouterOff /\ MiddlewareOff /\ EnvOff /\ DupOff
    /\ dateNow = TickMs
    /\ redis \in BOOLEAN
    /\ redisCodes = NoEntries
    /\ inMemoryCodes = NoEntries
    /\ processed = {}
    /\ issue = [p \in Issues |-> NoIssue]
    /\ consume = [c \in Consumes |-> NoConsume]

EmbedNext ==
    \/ \E p \in Issues, n \in Nonces, signed \in BOOLEAN, t \in Timestamps :
          VerifyNonce(p, n, signed, t)
    \/ \E p \in Issues : VerifySignature(p)
    \/ \E p \in Issues, complete \in BOOLEAN : IssueCode(p, complete)
    \/ \E c \in Consumes, p \in Issues : ConsumeGet(c, GenerateCode(p))
    \/ \E c \in Consumes : ConsumeDel(c)
    \/ \E c \in Consumes, p \in Issues : ConsumeInMemory(c, GenerateCode(p))
    \/ \E c \in Consumes : ConsumeNoCode(c)
    \/ Tick

EmbedSpec == EmbedInit /\ [][EmbedNext]_vars


----------------------------------------------------------------------------
(* Part 6: the environment variables of one user.  The row of the          *)
(* environment table holds the encrypted variables as one JSON value; the  *)
(* session route, the internal (API key) route and provisioning each read  *)
(* the row with one statement and write the whole value with another.      *)

NumEnvReqs == 2

EnvReqs == 1..NumEnvReqs

\* getSystemManagedUserEnvKeysSet() with SYSTEM_MANAGED_USER_ENV_KEYS unset
SYSTEM_MANAGED_USER_ENV_KEYS ==
    {"SYSTEM_MANAGED_GIM_APPLICATION_API_TOKEN", "SYSTEM_MANAGED_GIM_APPLICATION_ID",
     "GIM_APPLICATION_API_TOKEN", "GIM_APPLICATION_ID"}

\* the keys a request body names: a system-managed one and one of the user
BodyKeys == {"SYSTEM_MANAGED_GIM_APPLICATION_ID", "MY_KEY"}

SecretValues == {"a", "b"}

\* the variables of a request body
Bodies == UNION {[ks -> SecretValues] : ks \in SUBSET BodyKeys}

\* encryptSecret(value).encrypted and decryptSecret(encrypted).decrypted
EncryptSecret(value) == <<"enc", value>>
DecryptSecret(encrypted) == encrypted[2]

\* the record with the keys of a and of b, b's value where both have one
Merge(a, b) ==
    [k \in DOMAIN a \cup DOMAIN b |-> IF k \in DOMAIN b THEN b[k] ELSE a[k]]

\* the record without the keys that are not in ks
Restrict(a, ks) == [k \in DOMAIN a \cap ks |-> a[k]]

Encrypted(variables) == [k \in DOMAIN variables |-> EncryptSecret(variables[k])]

NoEnvReq ==
    [pc |-> "idle", kind |-> "", variables |-> NoEntries, existing |-> NoEntries,
     status |-> 0, data |-> NoEntries]

EnvAnswer(r, kind, status) ==
    envReq' = [envReq EXCEPT ![r] = [NoEnvReq EXCEPT !.pc = "done", !.kind = kind,
                                                     !.status = status]]

EnvRead(r, kind, variables) ==
    envReq' = [envReq EXCEPT ![r] = [NoEnvReq EXCEPT !.pc = "read", !.kind = kind,
                                                     !.variables = variables,
                                                     !.existing = environment]]

EnvWritten(r, status) == envReq' = [envReq EXCEPT ![r].pc = "done", ![r].status = status]

\* session POST lines 22-41: session, body, and the select of the row
SessionPostRead(r, hasSession, wellFormed, variables) ==
    /\ envReq[r].pc = "idle"
    /\ IF ~hasSession THEN EnvAnswer(r, "session", 401)
       ELSE IF ~wellFormed THEN EnvAnswer(r, "session", 400)
       ELSE EnvRead(r, "session", variables)
    /\ UNCHANGED <<deployVars, routerVars, mwVars, embedVars, dupVars, environment>>

\* session POST lines 43-62: the body without the system-managed keys,
\* encrypted, and the system-managed keys of the row read
SessionIncoming(variables, existing) ==
    Merge(Encrypted(Restrict(variables, DOMAIN variables \ SYSTEM_MANAGED_USER_ENV_KEYS)),
          Restrict(existing, SYSTEM_MANAGED_USER_ENV_KEYS))

\* session POST lines 64-80: the upsert of the whole value
SessionPostWrite(r) ==
    /\ envReq[r].pc = "read" /\ envReq[r].kind = "session"
    /\ environment' = SessionIncoming(envReq[r].variables, envReq[r].existing)
    /\ EnvWritten(r, 200)
    /\ UNCHANGED <<deployVars, routerVars, mwVars, embedVars, dupVars>>

\* internal POST lines 45-47: the entries of the body that are kept
FilteredEntries(variables) == Restrict(variables, SYSTEM_MANAGED_USER_ENV_KEYS)

\* internal POST lines 26-61: API key, body, the select of the row, and the
\* answer when the body names no system-managed key
InternalPostRead(r, authenticated, wellFormed, variables) ==
    /\ envReq[r].pc = "idle"
    /\ IF ~authenticated THEN EnvAnswer(r, "internal", 401)
       ELSE IF ~wellFormed THEN EnvAnswer(r, "internal", 400)
       ELSE IF DOMAIN FilteredEntries(variables) = {}
       THEN envReq' = [envReq EXCEPT ![r] =
                          [NoEnvReq EXCEPT !.pc = "done", !.kind = "internal",
                                           !.variables = variables, !.status = 200]]
       ELSE EnvRead(r, "internal", variables)
    /\ UNCHANGED <<deployVars, routerVars, mwVars, embedVars, dupVars, environment>>

\* internal POST lines 63-70: { ...existingEncrypted, ...encryptedIncoming }
InternalMerged(variables, existing) ==
    Merge(existing, Encrypted(FilteredEntries(variables)))

\* internal POST lines 72-88: the upsert of the whole value
InternalPostWrite(r) ==
    /\ envReq[r].pc = "read" /\ envReq[r].kind = "internal"
    /\ environment' = InternalMerged(envReq[r].variables, envReq[r].existing)
    /\ EnvWritten(r, 200)
    /\ UNCHANGED <<deployVars, routerVars, mwVars, embedVars, dupVars>>

\* provision POST lines 112-120, for a verified request with appId and
\* apiToken whose personal key was created: the select of the row
ProvisionRead(r, appId, apiToken) ==
    /\ envReq[r].pc = "idle"
    /\ EnvRead(r, "provision",
               [k \in {"SYSTEM_MANAGED_GIM_APPLICATION_API_TOKEN",
                       "SYSTEM_MANAGED_GIM_APPLICATION_ID"} |->
                   IF k = "SYSTEM_MANAGED_GIM_APPLICATION_ID" THEN appId ELSE apiToken])
    /\ UNCHANGED <<deployVars, routerVars, mwVars, embedVars, dupVars, environment>>

\* provision POST lines 121-153: the upsert of the row with both credentials
ProvisionWrite(r) ==
    /\ envReq[r].pc = "read" /\ envReq[r].kind = "provision"
    /\ environment' = Merge(envReq[r].existing, Encrypted(envReq[r].variables))
    /\ EnvWritten(r, 201)
    /\ UNCHANGED <<deployVars, routerVars, mwVars, embedVars, dupVars>>

\* session GET lines 121-135: the variables decrypted, the system-managed
\* ones skipped
SessionData(variables) ==
    [k \in DOMAIN variables \ SYSTEM_MANAGED_USER_ENV_KEYS |-> DecryptSecret(variables[k])]

\* session GET lines 99-142
SessionGet(r, hasSession) ==
    /\ envReq[r].pc = "idle"
    /\ IF ~hasSession THEN EnvAnswer(r, "get", 401)
       ELSE envReq' = [envReq EXCEPT ![r] =
                          [NoEnvReq EXCEPT !.pc = "done", !.kind = "get", !.status = 200,
                                           !.data = SessionData(environment)]]
    /\ UNCHANGED <<deployVars, routerVars, mwVars, embedVars, dupVars, environment>>

\* the rows the user may have: none, or variables of the user and of the
\* system
StoredVariables ==
    {NoEntries}
    \cup {Encrypted(b) : b \in Bodies}

EnvInit ==
    /\ DeployInit /\ RouterOff /\ MiddlewareOff /\ EmbedOff /\ DupOff
    /\ environment \in StoredVariables
    /\ envReq = [r \in EnvReqs |-> NoEnvReq]

EnvNext ==
    \/ \E r \in EnvReqs, hasSession \in BOOLEAN, wellFormed \in BOOLEAN, b \in Bodies :
          SessionPostRead(r, hasSession, wellFormed, b)
    \/ \E r \in EnvReqs : SessionPostWrite(r)
    \/ \E r \in EnvReqs, authenticated \in BOOLEAN, wellFormed \in BOOLEAN, b \in Bodies :
          InternalPostRead(r, authenticated, wellFormed, b)
    \/ \E r \in EnvReqs : InternalPostWrite(r)
    \/ \E r \in EnvReqs, v \in SecretValues : ProvisionRead(r, v, v)
    \/ \E r \in EnvReqs : ProvisionWrite(r)
    \/ \E r \in EnvReqs, hasSession \in BOOLEAN : SessionGet(r, hasSession)

EnvSpec == EnvInit /\ [][EnvNext]_vars


----------------------------------------------------------------------------
(* Part 7: POST /api/internal/workspaces/{id}/duplicate.  The copy runs in *)
(* one db.transaction: its inserts are held back until the commit and are  *)
(* dropped when a statement throws.  No route of the model writes a row of *)
(* the source workspace, so every select of the transaction reads the same *)
(* source rows.                                                            *)

NumDups == 2

Dups == 1..NumDups

\* the rows of the source workspace: two workflows, the main one with two
\* blocks
SourceWorkspaceId == <<"ws">>
MainWorkflowId == <<"f1">>
OtherWorkflowId == <<"f2">>
B1 == <<"b1">>
B2 == <<"b2">>
B3 == <<"b3">>

\* crypto.randomUUID(): the n-th id handed to the request r, unlike any id
\* of a row and any id handed to another request
RandomUUID(r, n) == <<"uuid", r, n>>

\* a fresh id for every member of ids, none handed out twice
IdMap(ids, r, base) ==
    CHOOSE f \in [ids -> {RandomUUID(r, base + i) : i \in 1..Cardinality(ids)}] :
        \A a, b \in ids : a # b => f[a] # f[b]

\* the rows of a table that belong to a workflow
OfWorkflow(table, workflowId) ==
    {id \in DOMAIN table : table[id].workflowId = workflowId}

\* blockIdMapping.get(id) || id
Mapped(blockIdMapping, id) ==
    IF id \in DOMAIN blockIdMapping THEN blockIdMapping[id] ELSE id

\* the row of the table that the mapping sends to the new id
SourceOf(mapping, newId) == CHOOSE id \in DOMAIN mapping : mapping[id] = newId

\* the copied edges with the block ids of the source kept
NewEdgesUnmapped(newWorkflowId, edgeIds, blockIdMapping) ==
    [n \in {edgeIds[e] : e \in DOMAIN edgeIds} |->
        [workflowId |-> newWorkflowId,
         sourceBlockId |-> edgeRows[SourceOf(edgeIds, n)].sourceBlockId,
         targetBlockId |-> edgeRows[SourceOf(edgeIds, n)].targetBlockId]]

\* lines 199-214: the copied edges
NewEdges(newWorkflowId, edgeIds, blockIdMapping) ==
    [n \in {edgeIds[e] : e \in DOMAIN edgeIds} |->
        [workflowId |-> newWorkflowId,
         sourceBlockId |->
             Mapped(blockIdMapping, edgeRows[SourceOf(edgeIds, n)].sourceBlockId),
         targetBlockId |->
             Mapped(blockIdMapping, edgeRows[SourceOf(edgeIds, n)].targetBlockId)]]

\* lines 139-196: the copied blocks
NewBlocks(newWorkflowId, blockIdMapping) ==
    [n \in {blockIdMapping[b] : b \in DOMAIN blockIdMapping} |->
        [workflowId |-> newWorkflowId,
         parentId |-> Mapped(blockIdMapping,
                             blockRows[SourceOf(blockIdMapping, n)].parentId)]]

\* lines 217-247: the copied subflows, those of no copied block left out
NewSubflows(newWorkflowId, sourceWorkflowId, blockIdMapping) ==
    LET kept == OfWorkflow(subflowRows, sourceWorkflowId) \cap DOMAIN blockIdMapping
    IN  [n \in {blockIdMapping[x] : x \in kept} |->
            [workflowId |-> newWorkflowId,
             nodes |-> {Mapped(blockIdMapping, node) :
                          node \in subflowRows[SourceOf(blockIdMapping, n)].nodes}]]

NoInserts ==
    [workspaces |-> NoEntries, permissions |-> {}, workflows |-> NoEntries,
     blocks |-> NoEntries, edges |-> NoEntries, subflows |-> NoEntries]

NoDup ==
    [pc |-> "idle", userId |-> "", sourceMainWorkflowId |-> <<>>,
     newWorkspaceId |-> <<>>, workflowIdMap |-> NoEntries, remaining |-> {},
     blockIds |-> NoEntries, tx |-> NoInserts, status |-> 0]

\* the callers: no API key, an admin of the source workspace, a member
\* without the admin permission, the key of another workspace
DupCallers == {"none", "admin", "member", "otherWorkspaceKey"}

\* body.sourceMainWorkflowId: missing, a workflow of the source workspace,
\* one that is not
MainWorkflowIds == {<<>>, MainWorkflowId, <<"f9">>}

DupAnswer(r, status) ==
    dup' = [dup EXCEPT ![r].pc = "done", ![r].status = status, ![r].tx = NoInserts]

\* lines 19-77: the checks before the transaction
DupBegin(r, caller, mainId) ==
    /\ dup[r].pc = "idle"
    /\ IF caller = "none" THEN DupAnswer(r, 401) /\ UNCHANGED uuid
       ELSE IF caller = "otherWorkspaceKey" THEN DupAnswer(r, 403) /\ UNCHANGED uuid
       ELSE IF mainId = <<>> THEN DupAnswer(r, 400) /\ UNCHANGED uuid
       ELSE IF caller # "admin" THEN DupAnswer(r, 403) /\ UNCHANGED uuid
       ELSE IF SourceWorkspaceId \notin DOMAIN workspaceRows
       THEN DupAnswer(r, 404) /\ UNCHANGED uuid
       ELSE IF ~( /\ mainId \in DOMAIN workflowRows
                  /\ workflowRows[mainId].workspaceId = SourceWorkspaceId )
       THEN DupAnswer(r, 404) /\ UNCHANGED uuid
       ELSE /\ dup' = [dup EXCEPT ![r] =
                          [NoDup EXCEPT !.pc = "tx", !.userId = caller,
                                        !.sourceMainWorkflowId = mainId,
                                        !.newWorkspaceId = RandomUUID(r, uuid[r] + 1)]]
            /\ uuid' = [uuid EXCEPT ![r] = @ + 1]
    /\ UNCHANGED <<deployVars, routerVars, mwVars, embedVars, envVars,
                   workspaceRows, permissionRows, workflowRows, blockRows,
                   edgeRows, subflowRows>>

\* lines 79-108: the workflows of the source are selected and given new
\* ids, the workspace and the permission rows are inserted
DupStart(r) ==
    /\ dup[r].pc = "tx"
    /\ LET allSourceWorkflows ==
               {w \in DOMAIN workflowRows :
                   workflowRows[w].workspaceId = SourceWorkspaceId}
           workflowIdMap == IdMap(allSourceWorkflows, r, uuid[r])
       IN  /\ dup' = [dup EXCEPT
                         ![r].pc = "copy",
                         ![r].workflowIdMap = workflowIdMap,
                         ![r].remaining = allSourceWorkflows,
                         ![r].tx.workspaces =
                             [w \in {dup[r].newWorkspaceId} |->
                                 [name |-> "(Copy)", ownerId |-> dup[r].userId]],
                         ![r].tx.permissions =
                             {[entityId |-> dup[r].newWorkspaceId,
                               userId |-> dup[r].userId, permissionType |-> "admin"]}]
           /\ uuid' = [uuid EXCEPT ![r] = @ + Cardinality(allSourceWorkflows) + 1]
    /\ UNCHANGED <<deployVars, routerVars, mwVars, embedVars, envVars,
                   workspaceRows, permissionRows, workflowRows, blockRows,
                   edgeRows, subflowRows>>

\* lines 115-250: one turn of the loop: the workflow row, its blocks,
\* edges and subflows are inserted
DupCopy(r, source) ==
    /\ dup[r].pc = "copy"
    /\ source \in dup[r].remaining
    /\ LET newWorkflowId == dup[r].workflowIdMap[source]
           blockIdMapping == IdMap(OfWorkflow(blockRows, source), r, uuid[r])
           edgeIds == IdMap(OfWorkflow(edgeRows, source), r,
                            uuid[r] + Cardinality(DOMAIN blockIdMapping))
       IN  /\ dup' = [dup EXCEPT
                         ![r].remaining = @ \ {source},
                         ![r].blockIds = Merge(@, blockIdMapping),
                         ![r].tx.workflows =
                             Merge(@, [w \in {newWorkflowId} |->
                                         [workspaceId |-> dup[r].newWorkspaceId]]),
                         ![r].tx.blocks = Merge(@, NewBlocks(newWorkflowId, blockIdMapping)),
                         ![r].tx.edges =
                             Merge(@, NewEdges(newWorkflowId, edgeIds, blockIdMapping)),
                         ![r].tx.subflows =
                             Merge(@, NewSubflows(newWorkflowId, source, blockIdMapping))]
           /\ uuid' = [uuid EXCEPT ![r] = @ + Cardinality(DOMAIN blockIdMapping)
                                                 + Cardinality(DOMAIN edgeIds)]
    /\ UNCHANGED <<deployVars, routerVars, mwVars, embedVars, envVars,
                   workspaceRows, permissionRows, workflowRows, blockRows,
                   edgeRows, subflowRows>>

\* the table after the commit of the inserts
DupCommitted(table, inserts) == Merge(table, inserts)

\* lines 252-270: the transaction commits and the answer is built
DupCommit(r) ==
    /\ dup[r].pc = "copy"
    /\ dup[r].remaining = {}
    /\ workspaceRows' = DupCommitted(workspaceRows, dup[r].tx.workspaces)
    /\ permissionRows' = permissionRows \cup dup[r].tx.permissions
    /\ workflowRows' = DupCommitted(workflowRows, dup[r].tx.workflows)
    /\ blockRows' = DupCommitted(blockRows, dup[r].tx.blocks)
    /\ edgeRows' = DupCommitted(edgeRows, dup[r].tx.edges)
    /\ subflowRows' = DupCommitted(subflowRows, dup[r].tx.subflows)
    /\ dup' = [dup EXCEPT
                  ![r].pc = "done", ![r].tx = NoInserts,
                  ![r].status =
                      IF dup[r].sourceMainWorkflowId \in DOMAIN dup[r].workflowIdMap
                      THEN 201 ELSE 500]
    /\ UNCHANGED <<deployVars, routerVars, mwVars, embedVars, envVars, uuid>>

\* lines 271-274: a statement of the transaction throws: the transaction
\* is rolled back and the answer is 500
DupFail(r) ==
    /\ dup[r].pc \in {"tx", "copy"}
    /\ DupAnswer(r, 500)
    /\ UNCHANGED <<deployVars, routerVars, mwVars, embedVars, envVars,
                   workspaceRows, permissionRows, workflowRows, blockRows,
                   edgeRows, subflowRows, uuid>>

\* the edges a source workspace may hold: inside the main workflow, inside
\* the other one, and one of the main workflow to a block that is not its
\* own
SourceEdgePool ==
    { [workflowId |-> MainWorkflowId, sourceBlockId |-> B1, targetBlockId |-> B2],
      [workflowId |-> OtherWorkflowId, sourceBlockId |-> B3, targetBlockId |-> B3],
      [workflowId |-> MainWorkflowId, sourceBlockId |-> B2, targetBlockId |-> B3] }

\* the edge table of a set of edges, the i-th edge with the id <<"e", i>>
EdgeTable(edges) ==
    LET n == Cardinality(edges)
        order == CHOOSE f \in [1..n -> edges] : \A i, j \in 1..n : i # j => f[i] # f[j]
    IN  [id \in {<<"e", i>> : i \in 1..n} |-> order[id[2]]]

DupInit ==
    /\ DeployInit /\ RouterOff /\ MiddlewareOff /\ EmbedOff /\ EnvOff
    /\ workspaceRows = [w \in {SourceWorkspaceId} |-> [name |-> "", ownerId |-> "admin"]]
    /\ permissionRows =
          {[entityId |-> SourceWorkspaceId, userId |-> "admin", permissionType |-> "admin"]}
    /\ workflowRows = [w \in {MainWorkflowId, OtherWorkflowId} |->
                          [workspaceId |-> SourceWorkspaceId]]
    /\ \E nested \in BOOLEAN :
          /\ blockRows =
                [b \in {B1, B2, B3} |->
                    [workflowId |-> IF b = B3 THEN OtherWorkflowId ELSE MainWorkflowId,
                     parentId |-> IF nested /\ b = B2 THEN B1 ELSE <<>>]]
          /\ subflowRows =
                IF nested
                THEN [x \in {B1} |-> [workflowId |-> MainWorkflowId, nodes |-> {B2}]]
                ELSE NoEntries
    /\ \E edges \in SUBSET SourceEdgePool : edgeRows = EdgeTable(edges)
    /\ uuid = [r \in Dups |-> 0]
    /\ dup = [r \in Dups |-> NoDup]

DupNext ==
    \/ \E r \in Dups, c \in DupCallers, m \in MainWorkflowIds : DupBegin(r, c, m)
    \/ \E r \in Dups : DupStart(r)
    \/ \E r \in Dups, w \in DOMAIN workflowRows : DupCopy(r, w)
    \/ \E r \in Dups : DupCommit(r)
    \/ \E r \in Dups : DupFail(r)

DupSpec == DupInit /\ [][DupNext]_vars

----------------------------------------------------------------------------

Init == DeployInit /\ RouterOff /\ MiddlewareOff /\ EmbedOff /\ EnvOff /\ DupOff

Next ==
    \/ \E r \in Reqs, c \in Callers, v \in VersionParams : ActivateBegin(r, c, v)
    \/ \E r \in Reqs : DeactivateSelect(r)
    \/ \E r \in Reqs : DeactivateRows(r)
    \/ \E r \in Reqs : ActivateRow(r)
    \/ \E r \in Reqs : ActivateMissing(r)
    \/ \E r \in Reqs : MarkDeployed(r)
    \/ \E r \in Reqs : ActivateCommit(r)
    \/ \E r \in Reqs, c \in Callers, v \in VersionParams, n \in NameInputs :
          PatchBegin(r, c, v, n)
    \/ \E r \in Reqs : PatchUpdate(r)
    \/ \E r \in Reqs : PatchMissing(r)
    \/ \E r \in Reqs, c \in Callers : GetList(r, c)
    \/ \E r \in Reqs, c \in Callers, v \in VersionParams : GetVersion(r, c, v)

Spec == Init /\ [][Next]_vars

\* the callers of the activation runs: POST activate asks for no more than
\* an API key, so a caller without a key, one with write access and one
\* without cover its paths
ActivateCallers == {"anonymous", "owner", "reader"}

\* concurrent POST activate requests alone
ActivateNext ==
    \/ \E r \in Reqs, c \in ActivateCallers, v \in VersionParams :
          ActivateBegin(r, c, v)
    \/ \E r \in Reqs : DeactivateSelect(r)
    \/ \E r \in Reqs : DeactivateRows(r)
    \/ \E r \in Reqs : ActivateRow(r)
    \/ \E r \in Reqs : ActivateMissing(r)
    \/ \E r \in Reqs : MarkDeployed(r)
    \/ \E r \in Reqs : ActivateCommit(r)

ActivateSpec == Init /\ [][ActivateNext]_vars

\* the callers of the rename runs: one with read and one with write access
RenameCallers == {"reader", "owner"}

\* the version parameters of the rename runs: the oldest and the live
\* version, a version without a row, no number
RenameVersions == {1, MaxVersion, MaxVersion + 1, NotANumber}

\* concurrent PATCH requests alone, names at the length limit included
RenameNext ==
    \/ \E r \in Reqs, c \in RenameCallers, v \in RenameVersions,
           n \in NameInputs \cup LongNames : PatchBegin(r, c, v, n)
    \/ \E r \in Reqs : PatchUpdate(r)
    \/ \E r \in Reqs : PatchMissing(r)

RenameSpec == Init /\ [][RenameNext]_vars

----------------------------------------------------------------------------
(* Deployment version store: properties *)

OpenPcs == {"deactivate", "deactivate_rows", "activate", "mark_deployed", "commit"}

Answered(r, op) == pc[r] = "done" /\ req[r].op = op

\* C1: at most one deployment-version row of the workflow has
\* isActive = true, in every reachable state of the store.
C1_AtMostOneActive == Cardinality(ActiveRows) <= 1

\* C2: once two activate requests of the same workflow with distinct
\* existing targets v1 and v2 have both finished, exactly one of v1, v2
\* is active: never both, never neither.
C2_ConcurrentActivateExactlyOne ==
    \A r1 \in Reqs, r2 \in Reqs :
        ( /\ r1 # r2
          /\ Answered(r1, "activate") /\ resp[r1].status = 200
          /\ Answered(r2, "activate") /\ resp[r2].status = 200
          /\ req[r1].version # req[r2].version
          /\ \A o \in Reqs \ {r1, r2} : pc[o] = "idle" )
        => (rows[req[r1].version].isActive # rows[req[r2].version].isActive)

\* C3: activate of a (workflow, version) pair that has no row is atomic:
\* no step of that request changes a committed deployment row or the
\* workflow row (isDeployed, deployedAt), and when it has answered none of
\* its writes is left to be committed.
C3_ActivateMissingAtomic ==
    [][\A r \in Reqs :
          ( /\ req'[r].op = "activate"
            /\ req'[r].version \notin Versions
            /\ pc'[r] # pc[r] )
          => ( /\ rows' = rows
               /\ wf' = wf
               /\ (pc'[r] = "done" =>
                      /\ resp'[r].status # 200
                      /\ txw'[r] = NoWrites
                      /\ ~txwf'[r]) )]_vars

\* C3 witness: an activate of the missing version has been answered with the
\* failure and the version that was active before is still the only active one.
C3_Witness ==
    \E r \in Reqs :
        /\ Answered(r, "activate")
        /\ req[r].version = MaxVersion + 1
        /\ resp[r].error = "Deployment version not found"
        /\ ActiveRows = {MaxVersion}
        /\ wf = [isDeployed |-> TRUE, deployedAt |-> 0]

\* C4: a successful activate(W, b), for a workflow whose active version is
\* a # b (the active row its transaction cleared), ends with a inactive, b
\* active and the workflow deployed with deployedAt the timestamp of this
\* request; the three effects are committed together: before its commit no
\* step of the request changes a committed row.
C4_ActivateRoundTrip ==
    [][\A r \in Reqs :
          /\ \A a \in Versions :
                ( /\ pc[r] = "commit" /\ pc'[r] = "done"
                  /\ ActiveRows = {a}
                  /\ a # req[r].version
                  /\ a \in DOMAIN txw[r] )
                => ( /\ ~rows'[a].isActive
                     /\ rows'[req[r].version].isActive
                     /\ wf' = [isDeployed |-> TRUE, deployedAt |-> req[r].now]
                     /\ resp'[r].status = 200
                     /\ resp'[r].deployedAt = req[r].now )
          /\ ( /\ pc[r] \in OpenPcs \ {"commit"}
               /\ pc'[r] \in OpenPcs
               /\ pc'[r] # pc[r] )
             => (rows' = rows /\ wf' = wf)]_vars

\* C4 witness: version 1 was activated while MaxVersion was the active
\* version; now 1 is the only active row and the workflow carries the
\* request's timestamp.
C4_Witness ==
    \E r \in Reqs :
        /\ Answered(r, "activate")
        /\ resp[r].status = 200
        /\ req[r].version = 1
        /\ ActiveRows = {1}
        /\ wf = [isDeployed |-> TRUE, deployedAt |-> req[r].now]
        /\ \A o \in Reqs \ {r} : pc[o] = "idle"

\* C5: a mutating deployment call (PATCH rename, POST activate) changes
\* stored state only for a caller that is the owner or has write or admin
\* permission; a GET succeeds only for a caller with at least read
\* permission.
C5_MutationNeedsWriteAccess ==
    \A r \in Reqs :
        /\ ( /\ pc[r] = "done"
             /\ req[r].op \in {"activate", "rename"}
             /\ resp[r].status = 200 )
           => CanWrite(req[r].caller)
        /\ ( /\ pc[r] = "done"
             /\ req[r].op \in {"list", "get"}
             /\ resp[r].status = 200 )
           => HasAccess(req[r].caller)

\* C6: POST activate of a (workflowId, version) pair that has no row is
\* answered 404.
C6_ActivateMissingIs404 ==
    \A r \in Reqs :
        ( /\ Answered(r, "activate")
          /\ Authenticated(req[r].caller)
          /\ req[r].version # NotANumber
          /\ req[r].version \notin Versions )
        => resp[r].status = 404

----------------------------------------------------------------------------
(* Intent router: properties *)

\* block ids c with an edge router -> c
Successors(b) ==
    {e.target : e \in {connections[i] : i \in DOMAIN connections} \cap
                      {Edge(b, t) : t \in WorkflowBlocks}}

\* block ids p with an edge p -> router
Predecessors(b) ==
    {e.source : e \in {connections[i] : i \in DOMAIN connections} \cap
                      {Edge(p, b) : p \in WorkflowBlocks}}

CandidateSet == Successors(RouterId) \ Predecessors(RouterId)

TargetIds == {targetBlocks[i].id : i \in DOMAIN targetBlocks}

Decided == rpc \in {"returned", "threw"} /\ gatewayResult.success

\* C7: the candidate list built for the decision holds exactly the block
\* ids c with an edge R -> c, minus every p with an edge p -> R (direct
\* predecessors only); a block that is a successor and a direct predecessor
\* of R is no candidate.
C7_CandidatesAreSuccessorsMinusPredecessors ==
    rpc \notin {"ready", "off"} =>
        /\ TargetIds = CandidateSet
        /\ \A i \in DOMAIN targetBlocks :
              targetBlocks[i].id \notin Predecessors(RouterId)

\* C7 witness: IdA is a successor and a direct predecessor of the router,
\* IdAA a successor only; the list built holds IdAA alone.
C7_Witness ==
    /\ rpc = "awaiting"
    /\ connections = <<Edge(RouterId, IdA), Edge(IdA, RouterId), Edge(RouterId, IdAA)>>
    /\ TargetIds = {IdAA}

\* C8 as stated: whenever execute returns an output, the selected block id
\* is a candidate (a direct successor of the router that is no direct
\* predecessor) and the reported type and title are those of that block.
C8_SelectedIsCandidateWithItsTypeAndTitle ==
    rpc = "returned" =>
        /\ output.selectedPath.blockId \in CandidateSet
        /\ output.selectedPath.blockType = Metadata(output.selectedPath.blockId).id
        /\ output.selectedPath.blockTitle = Metadata(output.selectedPath.blockId).name

\* C8 amended: whenever execute returns an output, the one selected block id
\* is a candidate, and the reported type and title are those of that block,
\* with 'unknown' reported for a block that has no type and 'Untitled Block'
\* for a block that has no title.
C8_SelectedIsCandidateWithDefaults ==
    rpc = "returned" =>
        LET id == output.selectedPath.blockId
        IN  /\ id \in CandidateSet
            /\ thrown = NoError
            /\ output.selectedPath.blockType =
                  (IF Metadata(id).id = "" THEN "unknown" ELSE Metadata(id).id)
            /\ output.selectedPath.blockTitle =
                  (IF Metadata(id).name = "" THEN "Untitled Block" ELSE Metadata(id).name)

\* C8 witness: execute returned block IdA with its own type and title while
\* another candidate was on offer.
C8_Witness ==
    /\ rpc = "returned"
    /\ CandidateSet = {IdA, IdAA}
    /\ output.selectedPath =
          [blockId |-> IdA, blockType |-> "agent", blockTitle |-> "Alpha"]

\* C9: if the gateway's response text, trimmed and lower-cased, equals the
\* id of a candidate, the router selects that candidate; the whole
\* normalised text is compared for equality, a text that only contains a
\* candidate id selects nothing.
C9_NormalisedResponseSelects ==
    Decided =>
        LET text == ToLower(Trim(gatewayResult.response))
        IN  /\ text \in CandidateSet =>
                  rpc = "returned" /\ output.selectedPath.blockId = text
            /\ rpc = "returned" => output.selectedPath.blockId = text
            /\ ( /\ gatewayResult.response = <<" ", "A", "\n">>
                 /\ IdA \in CandidateSet )
               => output.selectedPath.blockId = IdA
            /\ ( /\ gatewayResult.response = <<"a", " ", "a">>
                 /\ CandidateSet = {IdA} )
               => rpc = "threw"

\* C9 witness: candidates IdA and IdAA, the response " A\n" selected IdA.
C9_Witness ==
    /\ rpc = "returned"
    /\ CandidateSet = {IdA, IdAA}
    /\ gatewayResult.response = <<" ", "A", "\n">>
    /\ output.selectedPath.blockId = IdA

\* C10: if the normalised response equals no candidate id, execute fails
\* with an invalid-routing-decision error that carries the raw response and
\* the list of candidate ids; the gateway was invoked once, no output is
\* returned and no block is selected.
C10_InvalidDecisionCarriesContext ==
    (Decided /\ ToLower(Trim(gatewayResult.response)) \notin CandidateSet) =>
        /\ rpc = "threw"
        /\ thrown.message = "Invalid routing decision: "
        /\ Len(gatewayCalls) = 1
        /\ output = NoOutput
        /\ thrown.arg = gatewayResult.response
        /\ "candidateIds" \in DOMAIN thrown.props


\* C11: when no candidate is left after the predecessors are excluded, the
\* router makes no special case of it: with valid inputs it still invokes
\* the gateway, once, with the empty candidate list, and whatever text the
\* gateway answers the execution fails with the invalid-routing-decision
\* error and returns no output.
C11_EmptyCandidatesAlwaysInvalid ==
    (rpc \notin {"ready", "off"} /\ CandidateSet = {}) =>
        /\ targetBlocks = <<>>
        /\ ExecuteChecks = NoError =>
              /\ Len(gatewayCalls) = 1
              /\ gatewayCalls[1].systemPrompt.targetBlocks = <<>>
        /\ rpc # "returned"
        /\ Decided =>
              /\ rpc = "threw"
              /\ thrown.message = "Invalid routing decision: "
              /\ output = NoOutput

\* C11 witness: IdA is the router's only successor and also its direct
\* predecessor; the gateway was called and answered "a", the id of the
\* excluded block, and the execution failed.
C11_Witness ==
    /\ connections = <<Edge(RouterId, IdA), Edge(IdA, RouterId)>>
    /\ Len(gatewayCalls) = 1
    /\ gatewayResult.success
    /\ gatewayResult.response = IdA
    /\ rpc = "threw"
    /\ thrown.message = "Invalid routing decision: "

\* C12: a target the router has two or more outgoing edges to appears
\* exactly once in the candidate list used for the decision request.
C12_DuplicateEdgesCollapsed ==
    rpc \notin {"ready", "off"} =>
        /\ \A i \in DOMAIN targetBlocks, j \in DOMAIN targetBlocks :
              targetBlocks[i].id = targetBlocks[j].id => i = j
        /\ \A k \in DOMAIN gatewayCalls :
              LET sent == gatewayCalls[k].systemPrompt.targetBlocks
              IN  \A i \in DOMAIN sent, j \in DOMAIN sent :
                      sent[i].id = sent[j].id => i = j

\* the values inputs.intentRoutes takes in the model
IntentRoutesInputs == {ins.intentRoutes : ins \in RouterInputs}

----------------------------------------------------------------------------
(* Rename: properties *)

\* the request has passed the checks that come before the name's
RenameReachesName(r) ==
    /\ req[r].op = "rename"
    /\ CanWrite(req[r].caller)
    /\ req[r].version # NotANumber
    /\ req[r].name # NotAString

\* C14: rename validates the trimmed name: with a trimmed length of 0 or
\* above 100 the request is answered 400 and no stored name changes; with a
\* trimmed length of 1..100 (exactly 100 included) the rename of an existing
\* version is answered 200 and the trimmed name is stored and returned.
C14_RenameValidatesTrimmedName ==
    [][\A r \in Reqs :
          ( /\ pc[r] # "done" /\ pc'[r] = "done"
            /\ req'[r].op = "rename"
            /\ CanWrite(req'[r].caller)
            /\ req'[r].version # NotANumber
            /\ req'[r].name # NotAString )
          => IF Len(Trim(req'[r].name)) \in 1..100
             THEN req'[r].version \in Versions =>
                     /\ resp'[r].status = 200
                     /\ resp'[r].name = Trim(req'[r].name)
                     /\ rows'[req'[r].version].name = Trim(req'[r].name)
             ELSE /\ resp'[r].status = 400
                  /\ rows' = rows]_vars

\* C14 witness: a name of 102 characters whose trimmed length is 100 was
\* accepted and stored trimmed, a name of 101 characters was refused.
C14_Witness ==
    \E r1 \in Reqs, r2 \in Reqs :
        /\ Answered(r1, "rename") /\ Answered(r2, "rename")
        /\ Len(req[r1].name) = 102
        /\ resp[r1].status = 200
        /\ Len(rows[req[r1].version].name) = 100
        /\ Len(req[r2].name) = 101
        /\ RenameReachesName(r2)
        /\ resp[r2].status = 400

\* C15: a successful rename changes the name of the row (workflow, version)
\* and nothing else: version, state and isActive of every row, the other
\* rows' names and the workflow's deployed flag and timestamp stay, no row
\* is created or deleted; a rename of a version without a row is answered
\* 404 and changes nothing.
C15_RenameChangesNameOnly ==
    [][\A r \in Reqs :
          ( /\ pc[r] = "rename" /\ pc'[r] = "done" )
          => /\ wf' = wf
             /\ DOMAIN rows' = DOMAIN rows
             /\ \A v \in DOMAIN rows :
                   /\ rows'[v].isActive = rows[v].isActive
                   /\ rows'[v].state = rows[v].state
                   /\ v # req[r].version => rows'[v] = rows[v]
             /\ IF req[r].version \in DOMAIN rows
                THEN resp'[r].status = 200
                ELSE resp'[r].status = 404 /\ rows' = rows]_vars

\* C15 witness: the active version was renamed and is still the active one;
\* a rename of the version after the last was answered 404.
C15_Witness ==
    \E r1 \in Reqs, r2 \in Reqs :
        /\ Answered(r1, "rename") /\ resp[r1].status = 200
        /\ req[r1].version = MaxVersion
        /\ rows[MaxVersion] =
              [isActive |-> TRUE, name |-> <<"q", "a">>, state |-> MaxVersion]
        /\ Answered(r2, "rename") /\ resp[r2].status = 404
        /\ req[r2].version = MaxVersion + 1

\* C16: rename is idempotent: a rename of a version to the name it already
\* has (the state one application of that rename leaves) succeeds and
\* leaves the store as it was.
C16_RenameIdempotent ==
    [][\A r \in Reqs :
          ( /\ pc[r] = "rename" /\ pc'[r] = "done"
            /\ req[r].version \in Versions
            /\ rows[req[r].version].name = Trim(req[r].name) )
          => /\ resp'[r].status = 200
             /\ resp'[r].name = rows[req[r].version].name
             /\ rows' = rows
             /\ wf' = wf]_vars

\* C16 witness: the same rename was applied twice to version 1, both were
\* answered 200 and the row holds the trimmed name.
C16_Witness ==
    \E r1 \in Reqs, r2 \in Reqs :
        /\ r1 # r2
        /\ Answered(r1, "rename") /\ resp[r1].status = 200
        /\ Answered(r2, "rename") /\ resp[r2].status = 200
        /\ req[r1].version = 1 /\ req[r2].version = 1
        /\ req[r1].name = <<" ", "q", "a", "\n">>
        /\ req[r2].name = req[r1].name
        /\ rows[1].name = <<"q", "a">>


----------------------------------------------------------------------------
(* Handlers: properties *)

\* the handlers that answer canHandle = true for a block
Matching(b) == {h \in Handlers : CanHandle(h, b)}

\* execute has ended with the gateway's answer success = false
GatewayFailed ==
    /\ rpc \in {"returned", "threw"}
    /\ gatewayCalls # <<>>
    /\ ~gatewayResult.success

\* C17: for every block type tag at most one of the handlers (intent
\* router, bot assistant, chat response) answers canHandle = true: no block
\* is matched by two handlers, and a block a handler has executed is
\* matched by exactly one.
C17_AtMostOneHandlerMatches ==
    /\ Cardinality(Matching(block)) <= 1
    /\ rpc \notin {"ready", "off"} => Cardinality(Matching(block)) = 1

\* C17 witness: a bot assistant block has been executed and the bot
\* assistant handler is the only one that matches it.
C17_Witness ==
    /\ rpc = "awaiting"
    /\ block.type = "vyin_bot_assistant"
    /\ Matching(block) = {"VyinBotAssistantBlockHandler"}

\* C18 as stated: whenever the gateway answers success = false to a
\* handler's execute, execute fails with an error that carries the block's
\* id, the block's name and the gateway's partial output, and no output is
\* returned.
C18_GatewayFailureCarriesBlock ==
    GatewayFailed =>
        /\ rpc = "threw"
        /\ output = NoOutput
        /\ thrown.props.blockId = block.id
        /\ thrown.props.blockName = block.name
        /\ thrown.props.output = gatewayResult.output

\* the name a handler reports for a block that has none
DefaultBlockName ==
    CASE block.type = VYIN_INTENT_ROUTER -> "Intent Router"
      [] block.type = "vyin_bot_assistant" -> "Vyin Bot Assistant"
      [] OTHER -> "Vyin Chat Response"

\* C18 amended: whenever the gateway answers success = false to a handler's
\* execute, execute fails with an error that carries the block's id, the
\* gateway's partial output and the block's name, or the handler's own
\* default name for a block that has no name, and no output is returned.
C18_GatewayFailureCarriesBlockOrDefaultName ==
    GatewayFailed =>
        /\ rpc = "threw"
        /\ output = NoOutput
        /\ thrown.props.blockId = block.id
        /\ thrown.props.blockName =
              (IF block.name = "" THEN DefaultBlockName ELSE block.name)
        /\ thrown.props.output = gatewayResult.output

\* C18 witness: the gateway failed with a partial output under a named bot
\* assistant block and the error carries the three.
C18_Witness ==
    /\ rpc = "threw"
    /\ block = [id |-> BotBlockId, type |-> "vyin_bot_assistant", name |-> "My Block"]
    /\ gatewayResult.error = "HTTP 502"
    /\ thrown.props =
          [blockId |-> BotBlockId, blockName |-> "My Block", output |-> <<"partial">>]

\* a URL with its scheme and host
FullyQualified(url) == url # <<>> /\ Head(url) = "https://"

\* C19: every call of the gateway made by a handler passes a fully
\* qualified url and a non-empty apiToken, and no handler calls the gateway
\* when the trigger payload lacks the application id, the API token or
\* (for the chat response, which posts to the channel) the channel.
C19_GatewayParamsComplete ==
    /\ \A k \in DOMAIN gatewayCalls :
          /\ FullyQualified(gatewayCalls[k].url)
          /\ gatewayCalls[k].apiToken # <<>>
    /\ ( \/ AppId = <<>>
         \/ ApiToken = <<>>
         \/ (block.type = "vyin_chat_response" /\ ChannelUrl = <<>>) )
       => gatewayCalls = <<>>

EmptyPayload == VyinChatTriggerPayload = NoFields

EarlierErrors ==
    {"Tool not found: ", "Bot profile is required", "User input is required",
     "Bot ID is required (from trigger or input)", "Prompt is required"}

C28_ReactivateIsIdempotent ==
    [][\A r \in Reqs :
          ( /\ pc[r] = "commit" /\ pc'[r] = "done"
            /\ ActiveRows = {req[r].version} )
          => /\ rows' = rows
             /\ resp'[r].status = 200
             /\ wf' = [isDeployed |-> TRUE, deployedAt |-> req[r].now]
             /\ resp'[r].deployedAt = req[r].now]_vars

\* C28 witness: the live version was activated again: it is the only active
\* row and the workflow carries the new timestamp.
C28_Witness ==
    \E r \in Reqs :
        /\ Answered(r, "activate")
        /\ resp[r].status = 200
        /\ req[r].version = MaxVersion
        /\ ActiveRows = {MaxVersion}
        /\ wf.deployedAt = req[r].now
        /\ req[r].now > 0
        /\ \A o \in Reqs \ {r} : pc[o] = "idle"

\* the id holds an upper-case character
HasUpperCase(id) == \E i \in DOMAIN id : LowerChar(id[i]) # id[i]

\* C29: the lower-cased response is compared with the candidate ids as they
\* are stored: a candidate whose id holds an upper-case character is
\* selected by no response, and when every candidate id holds one the
\* router fails whatever the gateway answers.
C29_UpperCaseIdNeverSelected ==
    /\ rpc = "returned" => ~HasUpperCase(output.selectedPath.blockId)
    /\ ( /\ Decided
         /\ \A id \in CandidateSet : HasUpperCase(id) )
       => /\ rpc = "threw"
          /\ thrown.message = "Invalid routing decision: "

\* C29 witness: the only candidate is "A", the gateway answered "A" and the
\* router failed.
C29_Witness ==
    /\ CandidateSet = {IdUpper}
    /\ gatewayResult.success
    /\ gatewayResult.response = IdUpper
    /\ rpc = "threw"
    /\ thrown.arg = IdA


\* middleware() has answered the request
Answers == mwResponse # NoEntries

\* the request carries a verified embed cookie for W1 while the flag is on
ScopedToW1 ==
    /\ mwRequest.embedSessionEnabled
    /\ mwRequest.cookie.present /\ mwRequest.cookie.valid
    /\ mwRequest.cookie.workspaceId = W1

\* what the guard answers to a request for another workspace than the
\* cookie's: pages are redirected to the cookie's workspace, the workspace
\* APIs are refused
OtherWorkspaceRefused ==
    (Answers /\ ScopedToW1)
    => /\ StartsWith(mwRequest.pathname, <<"/", "workspace", "/">> \o W2)
           => mwResponse = Redirect(<<"/", "workspace", "/", "W1", "/", "w">>)
       /\ ( \/ StartsWith(mwRequest.pathname, <<"/", "api", "/", "workspaces", "/">> \o W2)
            \/ StartsWith(mwRequest.pathname, <<"/", "api", "/", "v2", "/", "workspaces", "/">> \o W2) )
           => mwResponse.status = 403

\* with the flag off the cookie changes nothing of the answer
NoScopingWhenOff ==
    (Answers /\ ~mwRequest.embedSessionEnabled)
    => mwResponse = MiddlewareResponse([mwRequest EXCEPT !.cookie = NoCookie])

\* the request carries an embed cookie that does not verify while the flag
\* is on
InvalidToken ==
    /\ mwRequest.embedSessionEnabled
    /\ mwRequest.cookie.present /\ ~mwRequest.cookie.valid

Paid(c, code) ==
    /\ consume[c].pc = "done"
    /\ consume[c].code = code
    /\ ~consume[c].data.isNull

\* C23: a one-time code is single-use: of the consumeCode calls for one
\* stored code, with Redis or without, at most one returns the payload.
C23_CodeConsumedOnce ==
    \A c1, c2 \in DOMAIN consume :
        (\E p \in Issues : Paid(c1, GenerateCode(p)) /\ Paid(c2, GenerateCode(p)))
            => c1 = c2

\* C24: a correctly signed request with a given nonce is accepted at most
\* once, also when two requests with that nonce are verified at a time.
C24_NonceAcceptedOnce ==
    \A p1, p2 \in DOMAIN issue :
        (issue[p1].ok /\ issue[p2].ok /\ issue[p1].nonce = issue[p2].nonce)
            => p1 = p2


\* the request r of the given kind writes the row in this step
EnvWrites(r, kind) ==
    /\ r \in DOMAIN envReq
    /\ envReq[r].kind = kind /\ envReq[r].pc = "read"
    /\ envReq'[r].pc = "done"

\* the keys of ks have the same entries before and after the step
SameEntries(ks) ==
    \A k \in ks :
        /\ k \in DOMAIN environment <=> k \in DOMAIN environment'
        /\ k \in DOMAIN environment => environment'[k] = environment[k]

AllEnvKeys == BodyKeys \cup SYSTEM_MANAGED_USER_ENV_KEYS

\* C25: the session POST never changes a system-managed key: the write of a
\* session POST leaves every system-managed entry of the stored variables
\* as the internal POST or provisioning last wrote it, also when another
\* POST ran between its read and its write; and the session GET returns no
\* system-managed key.
C25_SessionPostKeepsSystemKeys ==
    [][ /\ \A r \in EnvReqs :
              EnvWrites(r, "session") => SameEntries(SYSTEM_MANAGED_USER_ENV_KEYS)
        /\ \A r \in EnvReqs :
              (r \in DOMAIN envReq /\ envReq'[r].kind = "get")
                  => DOMAIN envReq'[r].data \cap SYSTEM_MANAGED_USER_ENV_KEYS = {} ]_vars

\* C26: the internal POST upserts system-managed keys only: its write
\* leaves every other entry of the stored variables as it was, and a
\* request that names no system-managed key leaves the stored variables
\* unchanged.
C26_InternalPostKeepsUserKeys ==
    [][ \A r \in EnvReqs :
          /\ EnvWrites(r, "internal")
                => SameEntries(AllEnvKeys \ SYSTEM_MANAGED_USER_ENV_KEYS)
          /\ ( /\ r \in DOMAIN envReq
               /\ envReq[r].pc = "idle" /\ envReq'[r].kind = "internal"
               /\ DOMAIN envReq'[r].variables \cap SYSTEM_MANAGED_USER_ENV_KEYS = {} )
                => environment' = environment ]_vars


\* the edge's source and target are blocks of the edge's own workflow
EdgeInsideWorkflow(e) ==
    /\ e.sourceBlockId \in DOMAIN blockRows
    /\ blockRows[e.sourceBlockId].workflowId = e.workflowId
    /\ e.targetBlockId \in DOMAIN blockRows
    /\ blockRows[e.targetBlockId].workflowId = e.workflowId

\* the workflows of the source workspace
SourceWorkflows ==
    {w \in DOMAIN workflowRows : workflowRows[w].workspaceId = SourceWorkspaceId}

\* the graph invariant holds of the source workspace
SourceGraphOk ==
    \A e \in DOMAIN edgeRows :
        edgeRows[e].workflowId \in SourceWorkflows => EdgeInsideWorkflow(edgeRows[e])

\* the duplicate r answered 201
Duplicated(r) == dup[r].pc = "done" /\ dup[r].status = 201

\* every source block has one copy of its own, in the copy of its workflow
OneCopyPerBlock(r) ==
    LET ids == dup[r].blockIds
    IN  /\ DOMAIN ids = {b \in DOMAIN blockRows : blockRows[b].workflowId \in SourceWorkflows}
        /\ \A a, b \in DOMAIN ids : a # b => ids[a] # ids[b]
        /\ \A b \in DOMAIN ids :
              /\ ids[b] \in DOMAIN blockRows
              /\ ids[b] \notin DOMAIN ids
              /\ blockRows[ids[b]].workflowId = dup[r].workflowIdMap[blockRows[b].workflowId]
        /\ \A o \in DOMAIN dup :
              (o # r /\ Duplicated(o))
                  => \A a \in DOMAIN ids, b \in DOMAIN dup[o].blockIds :
                         ids[a] # dup[o].blockIds[b]
        /\ \A w \in SourceWorkflows :
              Cardinality(OfWorkflow(blockRows, dup[r].workflowIdMap[w]))
                  = Cardinality(OfWorkflow(blockRows, w))

\* no row of the duplicate r is in a table
NothingCommitted(r) ==
    LET newWorkflows == {dup[r].workflowIdMap[w] : w \in DOMAIN dup[r].workflowIdMap}
    IN  /\ dup[r].newWorkspaceId \notin DOMAIN workspaceRows
        /\ \A q \in permissionRows : q.entityId # dup[r].newWorkspaceId
        /\ \A w \in DOMAIN workflowRows :
              w \notin newWorkflows /\ workflowRows[w].workspaceId # dup[r].newWorkspaceId
        /\ \A b \in DOMAIN blockRows : blockRows[b].workflowId \notin newWorkflows
        /\ \A e \in DOMAIN edgeRows : edgeRows[e].workflowId \notin newWorkflows
        /\ \A x \in DOMAIN subflowRows : subflowRows[x].workflowId \notin newWorkflows

\* the rows of a table are those it had, unchanged, and maybe new ones
RowsKept(table, tableAfter) ==
    \A id \in DOMAIN table : id \in DOMAIN tableAfter /\ tableAfter[id] = table[id]

DupInvariant ==
    /\ SourceGraphOk => \A e \in DOMAIN edgeRows : EdgeInsideWorkflow(edgeRows[e])
    /\ \A r \in DOMAIN dup :
          /\ Duplicated(r) => OneCopyPerBlock(r)
          /\ ~Duplicated(r) => NothingCommitted(r)

====
